---- MODULE Spec2Model ----
(***************************************************************************)
(* A model of the sportsbet scripts (src/MLB2025fork1.py and siblings):    *)
(* the odds converters and perform_baseball_analysis, the reconciliation   *)
(* of the SBRI odds table with the DRatings prediction table.              *)
(*                                                                         *)
(* Values.  Every cell of a table is a tagged record, so that cells of     *)
(* different kinds can be compared:                                        *)
(*   Null        None / NaN in an object column / NaT                      *)
(*   NaN         the float not-a-number                                    *)
(*   Str(s)      a text                                                    *)
(*   Num(n, d)   the number n/d, kept in lowest terms with d > 0 (the      *)
(*               code's floats are modelled by exact rationals: "within    *)
(*               tolerance" in the code is equality here)                  *)
(*   Ts(u, z)    the instant u (hours, UTC) shown in zone z; a naive       *)
(*               timestamp is Naive(w): the wall-clock hour w, no zone     *)
(*   Raised(e)   not a value: the call ended by raising e                  *)
(***************************************************************************)
EXTENDS Integers, Sequences, FiniteSets

VARIABLES
    \* --- the odds converters, called on one argument -----------------------
    conv_pc,        \* "idle" | "start" | "d2a" | "a2d" | "d2a2d" | "a2d2a"
    conv_in,        \* the argument of the first call
    conv_mid,       \* what the first call returned (or Raised)
    conv_out,       \* what the second call, on conv_mid, returned
    \* --- perform_baseball_analysis -----------------------------------------
    pc,             \* "idle" | "input" | "done"
    sbri_df,        \* the odds table: a sequence of rows
    dratings_df,    \* the prediction table: a sequence of rows
    outcome,        \* "none" | "ok" | "empty" | "raised"
    final_df,       \* the returned table: a sequence of rows
    analysis_ready_df,  \* the ready rows with the columns of lines 283-296
    \* --- scrape_sbri_data ---------------------------------------------------
    sbri_pc,        \* "idle" | "feed" | "done"
    feed,           \* the 'events' of the JSON response: a sequence of events
    sbri_ret,       \* what the call returned, or Raised
    \* --- scrape_dratings_data -----------------------------------------------
    drate_pc,       \* "idle" | "fetch" | "pause" | "next" | "finish" | "done"
    script,         \* the script whose scrape_dratings_data runs
    page_num,       \* the loop variable
    all_dfs,        \* the tables kept so far
    fetched,        \* what each request so far met, in order
    fetch_log,      \* the requests ("get") and pauses ("sleep") so far, in order
    drate_ret,      \* what the call returned, or Raised
    \* --- scrape_tpt_data ----------------------------------------------------
    tpt_pc,         \* "idle" | "doc" | "done"
    tpt_doc,        \* the document the request met
    tpt_ret,        \* what the call returned, or Raised
    \* --- the team-name replacement of Football2025.py ------------------------
    name_pc,        \* "idle" | "start" | "once" | "twice"
    name_in,        \* the cell of the 'Home' / 'Visitor' column, stripped
    name_out,       \* the cell after .replace(TEAM_NAME_MAP)
    name_twice,     \* name_out after one more .replace(TEAM_NAME_MAP)
    \* --- main() ---------------------------------------------------------------
    main_pc,        \* "idle" | "prompt" | "auth" | "scrape" | "sheet" | "bigquery"
                    \* | "finished" | "unauthorized" | "rejected" | "aborted"
    main_script,    \* the script whose main runs
    main_gc,        \* "unset" | "client" | "none": what get_google_sheet_client gave
    main_src,       \* the position of the source at hand in Sources(main_script)
    main_got,       \* what the scrapers called so far returned (or Raised), in order
    main_log,       \* what the run did and reported so far, in order
    worksheets,     \* what the worksheet of each source holds
    bq_tables       \* the tables appended to the BigQuery table of each source

sbri_vars == <<sbri_pc, feed, sbri_ret>>
drate_vars == <<drate_pc, script, page_num, all_dfs, fetched, fetch_log, drate_ret>>
tpt_vars == <<tpt_pc, tpt_doc, tpt_ret>>
name_vars == <<name_pc, name_in, name_out, name_twice>>
main_vars == <<main_pc, main_script, main_gc, main_src, main_got, main_log, worksheets,
               bq_tables>>
driver_vars == <<name_vars, main_vars>>
scraper_vars == <<sbri_vars, drate_vars, tpt_vars, driver_vars>>

vars == <<conv_pc, conv_in, conv_mid, conv_out, pc, sbri_df, dratings_df, outcome, final_df,
          analysis_ready_df,
          scraper_vars>>

----------------------------------------------------------------------------
\* Values

Null == [t |-> "null"]
NaN == [t |-> "nan"]
Unset == [t |-> "unset"]
Str(s) == [t |-> "str", s |-> s]
Ts(u, z) == [t |-> "ts", utc |-> u, tz |-> z]
Naive(w) == [t |-> "naive", wall |-> w]
Raised(e) == [t |-> "raise", e |-> e]

Abs(x) == IF x < 0 THEN -x ELSE x

RECURSIVE GCD(_, _)
GCD(a, b) == IF b = 0 THEN a ELSE GCD(b, a % b)

\* n/d in lowest terms, d > 0.  Num(n, 0) is never built: a division by zero
\* is decided by the caller, as Python decides it before dividing.
Num(n, d) ==
    LET g == GCD(Abs(n), Abs(d))
        s == IF d < 0 THEN -1 ELSE 1
    IN  [t |-> "num", n |-> (s * n) \div g, d |-> (s * d) \div g]

IsNum(v) == v.t = "num"
IsRaised(v) == v.t = "raise"
\* pd.isna / Series.isna: None, NaN and NaT are missing
IsNA(v) == v.t \in {"null", "nan"}
NotNA(v) == ~IsNA(v)

RatLt(x, y) == x.n * y.d < y.n * x.d
RatLe(x, y) == x.n * y.d <= y.n * x.d
RatMul(x, y) == Num(x.n * y.n, x.d * y.d)
RatSub(x, y) == Num(x.n * y.d - y.n * x.d, x.d * y.d)
RatAdd(x, y) == Num(x.n * y.d + y.n * x.d, x.d * y.d)

----------------------------------------------------------------------------
\* The odds converters

\* A boundary slip: 2.0 itself sent to the negative branch.
convert_to_american_odds_gt(decimal_odds) ==
    IF decimal_odds.t \in {"null", "nan"} \/ ~IsNum(decimal_odds)
    THEN Null
    ELSE IF RatLt(Num(2, 1), decimal_odds)
         THEN RatSub(RatMul(decimal_odds, Num(100, 1)), Num(100, 1))
         ELSE IF decimal_odds.n = decimal_odds.d
              THEN Raised("ZeroDivisionError")
              ELSE Num(-100 * decimal_odds.d, decimal_odds.n - decimal_odds.d)

\* convert_to_american_odds: None for a missing or non-numeric argument;
\* d*100 - 100 for d >= 2.0; otherwise -100/(d - 1), which Python refuses to
\* evaluate at d = 1.0 (ZeroDivisionError, not caught).
convert_to_american_odds(decimal_odds) ==
    IF decimal_odds.t \in {"null", "nan"} \/ ~IsNum(decimal_odds)
    THEN Null
    ELSE IF RatLe(Num(2, 1), decimal_odds)
         THEN RatSub(RatMul(decimal_odds, Num(100, 1)), Num(100, 1))
         ELSE IF decimal_odds.n = decimal_odds.d
              THEN Raised("ZeroDivisionError")
              ELSE Num(-100 * decimal_odds.d, decimal_odds.n - decimal_odds.d)

\* float(text): the texts of the model that Python parses as a number.
ParseFloat(s) ==
    CASE s = "150" -> Num(150, 1)
      [] s = "-120" -> Num(-120, 1)
      [] OTHER -> Raised("ValueError")

\* float(american_odds) of line 76
ToFloat(v) ==
    CASE v.t = "num" -> v
      [] v.t = "str" -> ParseFloat(v.s)
      [] OTHER -> Raised("TypeError")

\* The branches of lines 77-80 on a float
AmericanBranches(a) ==
    IF a.n > 0
    THEN RatAdd(Num(a.n, a.d * 100), Num(1, 1))
    ELSE IF a.n = 0
         THEN Raised("ZeroDivisionError")
         ELSE RatAdd(Num(100 * a.d, Abs(a.n)), Num(1, 1))

\* The "+ 1" of the positive branch forgotten.
convert_american_to_decimal_noplus(american_odds) ==
    IF IsNA(american_odds) \/ american_odds = Str("")
    THEN NaN
    ELSE LET f == ToFloat(american_odds)
         IN  IF IsRaised(f) THEN NaN
             ELSE IF f.n > 0 THEN Num(f.n, f.d * 100) ELSE AmericanBranches(f)

\* convert_american_to_decimal: NaN for a missing, empty or unparseable
\* argument (ValueError and TypeError are caught); a/100 + 1 for a > 0,
\* otherwise 100/|a| + 1, where a = 0 raises ZeroDivisionError, which the
\* except clause of line 81 does not catch.
convert_american_to_decimal(american_odds) ==
    IF IsNA(american_odds) \/ american_odds = Str("")
    THEN NaN
    ELSE LET f == ToFloat(american_odds)
         IN  IF IsRaised(f) THEN NaN ELSE AmericanBranches(f)

\* --- bounds of the converters' arguments
MaxDecimalHundredths == 10000
NegDecimalHundredths == 150
MaxAmerican == 400

DecimalInputs == {Num(k, 100) : k \in (0 - NegDecimalHundredths)..MaxDecimalHundredths}
AmericanInputs == {Num(a, 1) : a \in (0 - MaxAmerican)..MaxAmerican}
OtherInputs == {Null, NaN, Str(""), Str("abc"), Str("150"), Str("-120")}
ConverterInputs == DecimalInputs \cup AmericanInputs \cup OtherInputs

\* One argument, no call made yet; no analysis under way.
InitConverters ==
    /\ conv_pc = "start"
    /\ conv_in \in ConverterInputs
    /\ conv_mid = Unset
    /\ conv_out = Unset
    /\ pc = "idle"
    /\ sbri_df = <<>>
    /\ dratings_df = <<>>
    /\ outcome = "none"
    /\ final_df = <<>>
    /\ analysis_ready_df = <<>>
    /\ sbri_pc = "idle" /\ feed = <<>> /\ sbri_ret = Unset
    /\ drate_pc = "idle" /\ script = "none" /\ page_num = 0 /\ all_dfs = <<>>
    /\ fetched = <<>> /\ fetch_log = <<>> /\ drate_ret = Unset
    /\ tpt_pc = "idle" /\ tpt_doc = Unset /\ tpt_ret = Unset
    /\ name_pc = "idle" /\ name_in = Unset /\ name_out = Unset /\ name_twice = Unset
    /\ main_pc = "idle" /\ main_script = "none" /\ main_gc = "unset" /\ main_src = 0
    /\ main_got = <<>> /\ main_log = <<>> /\ worksheets = <<>> /\ bq_tables = <<>>

\* convert_to_american_odds(conv_in)
CallToAmerican ==
    /\ conv_pc = "start"
    /\ conv_mid' = convert_to_american_odds(conv_in)
    /\ conv_pc' = "d2a"
    /\ UNCHANGED <<conv_in, conv_out, pc, sbri_df, dratings_df, outcome, final_df,
                   analysis_ready_df>>
    /\ UNCHANGED scraper_vars

\* convert_american_to_decimal(conv_in)
CallToDecimal ==
    /\ conv_pc = "start"
    /\ conv_mid' = convert_american_to_decimal(conv_in)
    /\ conv_pc' = "a2d"
    /\ UNCHANGED <<conv_in, conv_out, pc, sbri_df, dratings_df, outcome, final_df,
                   analysis_ready_df>>
    /\ UNCHANGED scraper_vars

\* convert_american_to_decimal(convert_to_american_odds(conv_in)): the second
\* call happens only if the first returned.
ThenToDecimal ==
    /\ conv_pc = "d2a"
    /\ ~IsRaised(conv_mid)
    /\ conv_out' = convert_american_to_decimal(conv_mid)
    /\ conv_pc' = "d2a2d"
    /\ UNCHANGED <<conv_in, conv_mid, pc, sbri_df, dratings_df, outcome, final_df,
                   analysis_ready_df>>
    /\ UNCHANGED scraper_vars

\* convert_to_american_odds(convert_american_to_decimal(conv_in))
ThenToAmerican ==
    /\ conv_pc = "a2d"
    /\ ~IsRaised(conv_mid)
    /\ conv_out' = convert_to_american_odds(conv_mid)
    /\ conv_pc' = "a2d2a"
    /\ UNCHANGED <<conv_in, conv_mid, pc, sbri_df, dratings_df, outcome, final_df,
                   analysis_ready_df>>
    /\ UNCHANGED scraper_vars

NextConverters == CallToAmerican \/ CallToDecimal \/ ThenToDecimal \/ ThenToAmerican

----------------------------------------------------------------------------
\* perform_baseball_analysis (src/MLB2025fork1.py, lines 218-310)
\*
\* A table is a sequence of rows; a row is a record of cells.  Only the
\* columns the function reads or writes are kept; the others are carried
\* through untouched by the code.  The fields si and di are the index labels
\* of the input rows a joined row came from (0: none): they are not columns,
\* they tell the rows of a table apart.

\* The 'Teams' text is kept as its words: team names and "(W-L)" records.
WL == "(W-L)"

RECURSIVE FirstWL(_, _)
FirstWL(words, i) ==
    IF i > Len(words) THEN 0
    ELSE IF words[i] = WL THEN i ELSE FirstWL(words, i + 1)

\* One regex group as a cell: the words between two places, joined.  The
\* names of the model are single words.
Words(ws) ==
    IF Len(ws) = 0 THEN Str("") ELSE IF Len(ws) = 1 THEN Str(ws[1]) ELSE Str(ws)

\* Series.str.extract(r'^(.*?)\s*\(\d+-\d+\)\s*(.*?)\s*\(\d+-\d+\)$'): group 1
\* is what precedes the first record, group 2 what lies between it and a
\* record that ends the text; both are NaN where the text does not match.
ExtractTeams(words) ==
    LET i == FirstWL(words, 1)
    IN  IF i > 0 /\ i < Len(words) /\ words[Len(words)] = WL
        THEN <<Words(SubSeq(words, 1, i - 1)), Words(SubSeq(words, i + 1, Len(words) - 1))>>
        ELSE <<NaN, NaN>>

\* pd.to_numeric(text.strip('%'), errors='coerce'): the percent texts of the
\* model; any other text, and a missing cell, is coerced to NaN.
ToNumericPercent(tok) ==
    CASE tok = Str("40%") -> Num(40, 1)
      [] tok = Str("50%") -> Num(50, 1)
      [] tok = Str("60%") -> Num(60, 1)
      [] OTHER -> NaN

\* Float arithmetic: NaN in, NaN out.
FDiv100(x) == IF IsNum(x) THEN Num(x.n, x.d * 100) ELSE NaN
FMul(x, y) == IF IsNum(x) /\ IsNum(y) THEN RatMul(x, y) ELSE NaN
FSub1(x) == IF IsNum(x) THEN RatSub(x, Num(1, 1)) ELSE NaN
FInv(x) == IF IsNum(x) THEN Num(x.d, x.n) ELSE NaN
\* x > y on floats: False when either is NaN
FGt(x, y) == IsNum(x) /\ IsNum(y) /\ RatLt(y, x)
\* np.maximum: NaN when either is NaN
FMax(x, y) == IF IsNum(x) /\ IsNum(y) THEN (IF RatLt(x, y) THEN y ELSE x) ELSE NaN

\* Column k of Series.str.split(' ', expand=True): None where the row has
\* fewer words.
SplitCol(win, k) == IF k <= Len(win) THEN Str(win[k]) ELSE Null

\* pd.to_datetime(..., errors='coerce') of one cell: a timestamp stays, a text
\* that is no date becomes NaT.
ToDatetime(v) == IF v.t \in {"ts", "naive"} THEN v ELSE Null

\* .dt.tz_convert('America/New_York') of one cell of a tz-aware column: the
\* instant is kept, the zone changes.
TzConvertNY(v) == IF v.t = "ts" THEN Ts(v.utc, "America/New_York") ELSE Null

\* .dt.tz_localize('America/New_York') of one cell of a naive column: the
\* wall-clock hour is read as New York time (UTC-4 in the season; the hours
\* of the model are neither ambiguous nor nonexistent).
TzLocalizeNY(v) == IF v.t = "naive" THEN Ts(v.wall + 4, "America/New_York") ELSE Null

\* Lines 228-239 on one prediction row.
CleanDratingsRow(r, j) ==
    LET team_names == ExtractTeams(r.Teams)
    IN  [Timestamp |-> TzConvertNY(ToDatetime(r.Time)),
         AwayTeam |-> team_names[1],
         HomeTeam |-> team_names[2],
         Teams |-> Str(r.Teams),
         AwayWinProb_pred |-> FDiv100(ToNumericPercent(SplitCol(r.Win, 1))),
         HomeWinProb_pred |-> FDiv100(ToNumericPercent(SplitCol(r.Win, 2))),
         di |-> j]

\* Lines 243-244 on one odds row.
CleanSbriRow(r, i) ==
    [Timestamp |-> TzLocalizeNY(ToDatetime(r.GameStart)),
     AwayTeam |-> r.AwayTeam,
     HomeTeam |-> r.HomeTeam,
     Game |-> r.Game,
     HomeMLOdds |-> r.HomeMLOdds,
     AwayMLOdds |-> r.AwayMLOdds,
     si |-> i]

\* What makes the try block of lines 227-248 raise (the function then prints
\* the error and returns an empty table):
\*  - a table that is None or has no columns (what the scrapers return when
\*    they have nothing: lines 101, 150, 201), modelled by the empty sequence;
\*  - win_probs[1] is no column: no row's 'Win' has two words;
\*  - no 'Time' parses: the coerced column is all NaT and tz-naive, and
\*    tz_convert refuses a naive column.
PreprocessRaises(sbri, dratings) ==
    \/ Len(dratings) = 0
    \/ Len(sbri) = 0
    \/ \A j \in 1..Len(dratings) : Len(dratings[j].Win) < 2
    \/ \A j \in 1..Len(dratings) : ToDatetime(dratings[j].Time).t # "ts"

CleanDratings(dratings) == [j \in 1..Len(dratings) |-> CleanDratingsRow(dratings[j], j)]
CleanSbri(sbri) == [i \in 1..Len(sbri) |-> CleanSbriRow(sbri[i], i)]

\* The join key.  pandas matches missing keys with each other, as equality of
\* the tagged cells does.
Key(r) == <<r.Timestamp, r.HomeTeam, r.AwayTeam>>

JoinRow(s, d) ==
    [Timestamp |-> s.Timestamp, HomeTeam |-> s.HomeTeam, AwayTeam |-> s.AwayTeam,
     Game |-> s.Game, HomeMLOdds |-> s.HomeMLOdds, AwayMLOdds |-> s.AwayMLOdds,
     Teams |-> d.Teams,
     AwayWinProb_pred |-> d.AwayWinProb_pred, HomeWinProb_pred |-> d.HomeWinProb_pred,
     si |-> s.si, di |-> d.di]

LeftOnlyRow(s) ==
    [Timestamp |-> s.Timestamp, HomeTeam |-> s.HomeTeam, AwayTeam |-> s.AwayTeam,
     Game |-> s.Game, HomeMLOdds |-> s.HomeMLOdds, AwayMLOdds |-> s.AwayMLOdds,
     Teams |-> NaN, AwayWinProb_pred |-> NaN, HomeWinProb_pred |-> NaN,
     si |-> s.si, di |-> 0]

RightOnlyRow(d) ==
    [Timestamp |-> d.Timestamp, HomeTeam |-> d.HomeTeam, AwayTeam |-> d.AwayTeam,
     Game |-> NaN, HomeMLOdds |-> NaN, AwayMLOdds |-> NaN,
     Teams |-> d.Teams,
     AwayWinProb_pred |-> d.AwayWinProb_pred, HomeWinProb_pred |-> d.HomeWinProb_pred,
     si |-> 0, di |-> d.di]

Matches(s, D) == SelectSeq(D, LAMBDA d : Key(d) = Key(s))

RowsFor(s, D) ==
    LET m == Matches(s, D)
    IN  IF Len(m) = 0 THEN <<LeftOnlyRow(s)>> ELSE [k \in 1..Len(m) |-> JoinRow(s, m[k])]

RECURSIVE LeftPart(_, _, _)
LeftPart(S, D, i) ==
    IF i > Len(S) THEN <<>> ELSE RowsFor(S[i], D) \o LeftPart(S, D, i + 1)

RECURSIVE RightPart(_, _, _)
RightPart(S, D, j) ==
    IF j > Len(D) THEN <<>>
    ELSE (IF \E i \in 1..Len(S) : Key(S[i]) = Key(D[j])
          THEN <<>> ELSE <<RightOnlyRow(D[j])>>) \o RightPart(S, D, j + 1)

\* pd.merge(sbri_df, dratings_df, on=[Timestamp, HomeTeam, AwayTeam],
\* how='outer'), lines 252-257.
OuterMerge(S, D) == LeftPart(S, D, 1) \o RightPart(S, D, 1)

\* Ascending order of 'Timestamp', NaT last (sort_values' defaults).
TsBefore(a, b) == a.t = "ts" /\ (b.t # "ts" \/ a.utc < b.utc)

RECURSIVE InsertByTimestamp(_, _)
InsertByTimestamp(sorted, r) ==
    IF Len(sorted) = 0 THEN <<r>>
    ELSE IF TsBefore(r.Timestamp, sorted[1].Timestamp)
         THEN <<r>> \o sorted
         ELSE <<sorted[1]>> \o InsertByTimestamp(Tail(sorted), r)

RECURSIVE SortByTimestampFrom(_, _, _)
SortByTimestampFrom(rows, k, acc) ==
    IF k > Len(rows) THEN acc
    ELSE SortByTimestampFrom(rows, k + 1, InsertByTimestamp(acc, rows[k]))

\* sort_values(by='Timestamp'), lines 274 and 310; rows of equal timestamp
\* keep their order here (the code's sort leaves their order open).
SortByTimestamp(rows) == SortByTimestampFrom(rows, 1, <<>>)

\* Conditions that exclude each other: a row missing both matches none.
StatusOf_exclusive(r) ==
    IF NotNA(r.HomeMLOdds) /\ NotNA(r.HomeWinProb_pred) THEN "Ready for Analysis"
    ELSE IF IsNA(r.HomeMLOdds) /\ NotNA(r.HomeWinProb_pred) THEN "Missing Odds"
    ELSE IF IsNA(r.HomeWinProb_pred) /\ NotNA(r.HomeMLOdds) THEN "Missing Prediction"
    ELSE "Unknown"

\* np.select(conditions, choices, default='Unknown'), lines 264-270: the
\* first condition that holds decides.
StatusOf(r) ==
    IF NotNA(r.HomeMLOdds) /\ NotNA(r.HomeWinProb_pred) THEN "Ready for Analysis"
    ELSE IF IsNA(r.HomeMLOdds) THEN "Missing Odds"
    ELSE IF IsNA(r.HomeWinProb_pred) THEN "Missing Prediction"
    ELSE "Unknown"

\* Lines 270-273 on one joined row: the status, and the game name filled from
\* 'Teams' where it is missing.
WithStatus(r) ==
    [Timestamp |-> r.Timestamp, HomeTeam |-> r.HomeTeam, AwayTeam |-> r.AwayTeam,
     Game |-> IF IsNA(r.Game) THEN r.Teams ELSE r.Game,
     HomeMLOdds |-> r.HomeMLOdds, AwayMLOdds |-> r.AwayMLOdds,
     Teams |-> r.Teams,
     AwayWinProb_pred |-> r.AwayWinProb_pred, HomeWinProb_pred |-> r.HomeWinProb_pred,
     si |-> r.si, di |-> r.di,
     Status |-> StatusOf(r)]

\* merged_df after line 274
MergedDf(sbri, dratings) ==
    LET m == OuterMerge(CleanSbri(sbri), CleanDratings(dratings))
    IN  SortByTimestamp([k \in 1..Len(m) |-> WithStatus(m[k])])

\* Lines 283-296 on one row that is ready for analysis.
HomeDecimalOdds(r) == convert_american_to_decimal(r.HomeMLOdds)
AwayDecimalOdds(r) == convert_american_to_decimal(r.AwayMLOdds)
HomeImpliedProb(r) == FInv(HomeDecimalOdds(r))
AwayImpliedProb(r) == FInv(AwayDecimalOdds(r))
HomeValue(r) == FSub1(FMul(r.HomeWinProb_pred, HomeDecimalOdds(r)))
AwayValue(r) == FSub1(FMul(r.AwayWinProb_pred, AwayDecimalOdds(r)))
\* The home team named on a tie as well.
BestBetTeam_ge(r) ==
    IF IsNum(HomeValue(r)) /\ IsNum(AwayValue(r)) /\ RatLe(AwayValue(r), HomeValue(r))
    THEN r.HomeTeam ELSE r.AwayTeam

BestBetTeam(r) == IF FGt(HomeValue(r), AwayValue(r)) THEN r.HomeTeam ELSE r.AwayTeam
BestBetValue(r) == FMax(HomeValue(r), AwayValue(r))

\* analysis_ready_df, line 278
AnalysisReady(merged) == SelectSeq(merged, LAMBDA r : r.Status = "Ready for Analysis")

\* analysis_ready_df after line 296: each ready row with its new columns
WithValues(ready) ==
    [k \in 1..Len(ready) |->
        [Timestamp |-> ready[k].Timestamp, HomeTeam |-> ready[k].HomeTeam,
         AwayTeam |-> ready[k].AwayTeam, Status |-> ready[k].Status,
         HomeMLOdds |-> ready[k].HomeMLOdds, AwayMLOdds |-> ready[k].AwayMLOdds,
         HomeWinProb_pred |-> ready[k].HomeWinProb_pred,
         AwayWinProb_pred |-> ready[k].AwayWinProb_pred,
         HomeDecimalOdds |-> HomeDecimalOdds(ready[k]),
         AwayDecimalOdds |-> AwayDecimalOdds(ready[k]),
         HomeValue |-> HomeValue(ready[k]), AwayValue |-> AwayValue(ready[k]),
         BestBetTeam |-> BestBetTeam(ready[k]), BestBetValue |-> BestBetValue(ready[k])]]

\* Series.apply(convert_american_to_decimal) raises what one call raises.
ConversionRaises(ready) ==
    \E k \in 1..Len(ready) : IsRaised(HomeDecimalOdds(ready[k])) \/ IsRaised(AwayDecimalOdds(ready[k]))

\* The filter widened to BestBetValue >= 0.
PositiveValueBets_ge(ready) ==
    SelectSeq(ready, LAMBDA r : IsNum(BestBetValue(r)) /\ RatLe(Num(0, 1), BestBetValue(r)))

\* positive_value_bets, line 299: BestBetValue > 0 (False on NaN)
PositiveValueBets(ready) == SelectSeq(ready, LAMBDA r : FGt(BestBetValue(r), Num(0, 1)))

WithBest(m, team, value) ==
    [Timestamp |-> m.Timestamp, HomeTeam |-> m.HomeTeam, AwayTeam |-> m.AwayTeam,
     Game |-> m.Game, HomeMLOdds |-> m.HomeMLOdds, AwayMLOdds |-> m.AwayMLOdds,
     Teams |-> m.Teams,
     AwayWinProb_pred |-> m.AwayWinProb_pred, HomeWinProb_pred |-> m.HomeWinProb_pred,
     si |-> m.si, di |-> m.di, Status |-> m.Status,
     BestBetTeam |-> team, BestBetValue |-> value]

BackRowsFor(m, bets) ==
    LET hit == SelectSeq(bets, LAMBDA p : Key(p) = Key(m))
    IN  IF Len(hit) = 0 THEN <<WithBest(m, NaN, NaN)>>
        ELSE [k \in 1..Len(hit) |-> WithBest(m, BestBetTeam(hit[k]), BestBetValue(hit[k]))]

RECURSIVE MergeBackFrom(_, _, _)
MergeBackFrom(merged, bets, k) ==
    IF k > Len(merged) THEN <<>>
    ELSE BackRowsFor(merged[k], bets) \o MergeBackFrom(merged, bets, k + 1)

\* merged_df.merge(positive_value_bets[[key, BestBetTeam, BestBetValue]],
\* on=key, how='left'), line 302: one output row per bet that shares the
\* row's key, one row without best-bet cells when none does.
MergeBack(merged, bets) == MergeBackFrom(merged, bets, 1)

\* Lines 277-310 once merged_df is there.
FinalDf(merged) ==
    LET ready == AnalysisReady(merged)
    IN  IF Len(ready) > 0
        THEN SortByTimestamp(MergeBack(merged, PositiveValueBets(ready)))
        ELSE SortByTimestamp([k \in 1..Len(merged) |-> WithBest(merged[k], NaN, NaN)])

\* How a call ends: "empty" (the empty table of lines 248 and 261), "raised"
\* (an exception leaves the function) or "ok" (line 310).
OutcomeOf(sbri, dratings) ==
    IF PreprocessRaises(sbri, dratings) THEN "empty"
    ELSE LET merged == MergedDf(sbri, dratings)
         IN  IF Len(merged) = 0 THEN "empty"
             ELSE IF ConversionRaises(AnalysisReady(merged)) THEN "raised"
             ELSE "ok"

\* --- the inputs of the model
MaxRows == 3

Yankees == Str("NYY")
RedSox == Str("BOS")

\* (Home MLOdds, Away MLOdds) of an odds row, as scrape_sbri_data leaves them:
\* American odds, or missing where the event had no such selection.
MoneylinePairs ==
    { <<Num(150, 1), Num(150, 1)>>,
      <<Num(-150, 1), Num(150, 1)>>,
      <<Num(150, 1), NaN>>,
      <<NaN, Num(150, 1)>>,
      <<NaN, NaN>>,
      <<Num(0, 1), Num(150, 1)>>,
      <<Num(150, 1), Str("abc")>> }

SbriRows ==
    { [GameStart |-> Naive(w), Game |-> Str("NYY @ BOS"),
       AwayTeam |-> Yankees, HomeTeam |-> RedSox,
       HomeMLOdds |-> ml[1], AwayMLOdds |-> ml[2]] :
      w \in {19, 22}, ml \in MoneylinePairs }

DratingsRows ==
    { [Time |-> tm, Teams |-> tt, Win |-> win] :
      tm \in {Ts(23, "UTC"), Ts(26, "UTC"), Str("TBD")},
      tt \in {<<"NYY", WL, "BOS", WL>>, <<"NYY", "BOS">>},
      win \in {<<"50%", "50%">>, <<"40%", "60%">>, <<"N/A", "50%">>} }

\* Two tables without rows yet, the function not called; no converter call
\* under way.
InitAnalysis ==
    /\ pc = "input"
    /\ sbri_df = <<>>
    /\ dratings_df = <<>>
    /\ outcome = "none"
    /\ final_df = <<>>
    /\ analysis_ready_df = <<>>
    /\ conv_pc = "idle"
    /\ conv_in = Unset
    /\ conv_mid = Unset
    /\ conv_out = Unset
    /\ sbri_pc = "idle" /\ feed = <<>> /\ sbri_ret = Unset
    /\ drate_pc = "idle" /\ script = "none" /\ page_num = 0 /\ all_dfs = <<>>
    /\ fetched = <<>> /\ fetch_log = <<>> /\ drate_ret = Unset
    /\ tpt_pc = "idle" /\ tpt_doc = Unset /\ tpt_ret = Unset
    /\ name_pc = "idle" /\ name_in = Unset /\ name_out = Unset /\ name_twice = Unset
    /\ main_pc = "idle" /\ main_script = "none" /\ main_gc = "unset" /\ main_src = 0
    /\ main_got = <<>> /\ main_log = <<>> /\ worksheets = <<>> /\ bq_tables = <<>>

\* One more row in the odds table handed to the function.
AddSbriRow ==
    /\ pc = "input"
    /\ Len(sbri_df) + Len(dratings_df) < MaxRows
    /\ \E r \in SbriRows : sbri_df' = Append(sbri_df, r)
    /\ UNCHANGED <<pc, dratings_df, outcome, final_df, analysis_ready_df,
                   conv_pc, conv_in, conv_mid, conv_out>>
    /\ UNCHANGED scraper_vars

\* One more row in the prediction table handed to the function.
AddDratingsRow ==
    /\ pc = "input"
    /\ Len(sbri_df) + Len(dratings_df) < MaxRows
    /\ \E r \in DratingsRows : dratings_df' = Append(dratings_df, r)
    /\ UNCHANGED <<pc, sbri_df, outcome, final_df, analysis_ready_df,
                   conv_pc, conv_in, conv_mid, conv_out>>
    /\ UNCHANGED scraper_vars

\* perform_baseball_analysis(sbri_df, dratings_df), the whole call.
PerformBaseballAnalysis ==
    /\ pc = "input"
    /\ pc' = "done"
    /\ outcome' = OutcomeOf(sbri_df, dratings_df)
    /\ final_df' = IF outcome' = "ok" THEN FinalDf(MergedDf(sbri_df, dratings_df)) ELSE <<>>
    /\ analysis_ready_df' = IF outcome' = "ok"
                            THEN WithValues(AnalysisReady(MergedDf(sbri_df, dratings_df)))
                            ELSE <<>>
    /\ UNCHANGED <<sbri_df, dratings_df, conv_pc, conv_in, conv_mid, conv_out>>
    /\ UNCHANGED scraper_vars

NextAnalysis == AddSbriRow \/ AddDratingsRow \/ PerformBaseballAnalysis

----------------------------------------------------------------------------
\* scrape_sbri_data (src/MLB2025fork1.py, lines 88-160; the same function in
\* src/Football2025.py, lines 149-221, with other market names)
\*
\* What a scraper returns: None (Null), a DataFrame, or it ends by raising.
\* A DataFrame is its column labels and its rows; pd.DataFrame() has neither.
DataFrame(columns, rows) == [t |-> "df", columns |-> columns, rows |-> rows]
EmptyDataFrame == DataFrame(<<>>, <<>>)
IsDataFrame(v) == v.t = "df"
\* DataFrame.empty
IsEmpty(df) == Len(df.rows) = 0 \/ Len(df.columns) = 0

SbriColumns ==
    <<"Sport", "GameStart", "Game", "AwayTeam", "HomeTeam", "Away MLOdds", "Home MLOdds",
      "HomeSpread", "AwaySpreadOdds", "HomeSpreadOdds", "UnderOdds", "OverOdds", "Handicap">>

\* The market names the script looks for
MoneyLineMarket(s) == "Money Line"
SpreadMarket(s) == IF s = "Football2025" THEN "Spread" ELSE "Run Line"
TotalMarket(s) == IF s = "Football2025" THEN "Total Points" ELSE "Total Runs"

\* pd.to_datetime(event.get('tsstart')) of line 110: errors='raise' is the
\* default, a text that is no date ends the call.
ParseTsStart(v) ==
    CASE v = Str("2025-07-04T19:00:00") -> Naive(19)
      [] v = Str("2025-07-04T22:00:00") -> Naive(22)
      [] v.t = "str" -> Raised("DateParseError")
      [] OTHER -> Null

\* game_data of lines 108-122; ei is the position of the event in the feed
\* (not a column).
NewGameData(event, i) ==
    [ei |-> i,
     Sport |-> event.sportname,
     GameStart |-> ParseTsStart(event.tsstart),
     Game |-> event.externaldescription,
     AwayTeam |-> event.shortnameaway,
     HomeTeam |-> event.shortnamehome,
     AwayMLOdds |-> Null, HomeMLOdds |-> Null, HomeSpread |-> Null,
     AwaySpreadOdds |-> Null, HomeSpreadOdds |-> Null,
     UnderOdds |-> Null, OverOdds |-> Null, Handicap |-> Null]

\* Every market name taken for the money line.
ApplySelection_anymarket(s, g, name, sel) ==
    IF sel.name = g.AwayTeam THEN [g EXCEPT !.AwayMLOdds = sel.price]
    ELSE IF sel.name = g.HomeTeam THEN [g EXCEPT !.HomeMLOdds = sel.price]
    ELSE g

\* One selection of a market of the given name, lines 125-144
ApplySelection(s, g, name, sel) ==
    IF name = MoneyLineMarket(s) THEN
        IF sel.name = g.AwayTeam THEN [g EXCEPT !.AwayMLOdds = sel.price]
        ELSE IF sel.name = g.HomeTeam THEN [g EXCEPT !.HomeMLOdds = sel.price]
        ELSE g
    ELSE IF name = SpreadMarket(s) THEN
        IF sel.name = g.AwayTeam THEN [g EXCEPT !.AwaySpreadOdds = sel.price]
        ELSE IF sel.name = g.HomeTeam
             THEN [g EXCEPT !.HomeSpread = sel.currenthandicap, !.HomeSpreadOdds = sel.price]
        ELSE g
    ELSE IF name = TotalMarket(s) THEN
        IF sel.name = Str("Over")
        THEN [g EXCEPT !.OverOdds = sel.price, !.Handicap = sel.currentmatchhandicap]
        ELSE IF sel.name = Str("Under") THEN [g EXCEPT !.UnderOdds = sel.price]
        ELSE g
    ELSE g

RECURSIVE ApplySelections(_, _, _, _, _)
ApplySelections(s, g, name, sels, k) ==
    IF k > Len(sels) THEN g
    ELSE ApplySelections(s, ApplySelection(s, g, name, sels[k]), name, sels, k + 1)

\* The markets of an event from the k-th on, line 124
RECURSIVE ApplyMarkets(_, _, _, _)
ApplyMarkets(s, g, markets, k) ==
    IF k > Len(markets) THEN g
    ELSE ApplyMarkets(s, ApplySelections(s, g, markets[k].name, markets[k].selections, 1),
                      markets, k + 1)

\* processed_rows of lines 106-146
ProcessedRows(s, events) ==
    [i \in 1..Len(events) |-> ApplyMarkets(s, NewGameData(events[i], i), events[i].markets, 1)]

\* pd.to_numeric(column, errors='coerce'), one cell
ToNumericCoerce(v) ==
    CASE v.t = "num" -> v
      [] v.t = "str" -> (LET f == ParseFloat(v.s) IN IF IsRaised(f) THEN NaN ELSE f)
      [] OTHER -> NaN

OddsCols ==
    {"AwayMLOdds", "HomeMLOdds", "HomeSpreadOdds", "AwaySpreadOdds", "OverOdds", "UnderOdds"}

\* Line 158 on one cell
ConvertOddsCell(v) == convert_to_american_odds(ToNumericCoerce(v))

\* Series.apply ends with the first exception of the function it applies.
OddsConversionRaises(rows) ==
    \E i \in 1..Len(rows) : \E c \in OddsCols : IsRaised(ConvertOddsCell(rows[i][c]))

\* The column apply() builds: floats, with NaN for None, as soon as one cell
\* is a number; a column of None otherwise.
ColumnHasNumber(rows, c) == \E i \in 1..Len(rows) : IsNum(ConvertOddsCell(rows[i][c]))
ConvertedCell(rows, i, c) ==
    LET v == ConvertOddsCell(rows[i][c])
    IN  IF v = Null /\ ColumnHasNumber(rows, c) THEN NaN ELSE v

\* Lines 155-158
ConvertOdds(rows) ==
    [i \in 1..Len(rows) |->
        [f \in DOMAIN rows[i] |->
            IF f \in OddsCols THEN ConvertedCell(rows, i, f) ELSE rows[i][f]]]

\* The order of the texts of the model, as Python compares them
TextOrder == <<"Athletics", "BOS", "NYY", "Oakland Athletics">>
TextRank(v) == CHOOSE k \in 1..Len(TextOrder) : Str(TextOrder[k]) = v

\* sort_values(by=['GameStart', 'AwayTeam']): a is placed before b
SbriBefore(a, b) ==
    \/ a.GameStart.t = "naive" /\ b.GameStart.t # "naive"
    \/ /\ a.GameStart.t = "naive" /\ b.GameStart.t = "naive"
       /\ \/ a.GameStart.wall < b.GameStart.wall
          \/ a.GameStart.wall = b.GameStart.wall /\ TextRank(a.AwayTeam) < TextRank(b.AwayTeam)

InsertSbri(sorted, r) ==
    LET before == SelectSeq(sorted, LAMBDA x : ~SbriBefore(r, x))
        after == SelectSeq(sorted, LAMBDA x : SbriBefore(r, x))
    IN  before \o <<r>> \o after

RECURSIVE SortSbriFrom(_, _, _)
SortSbriFrom(rows, k, acc) ==
    IF k > Len(rows) THEN acc ELSE SortSbriFrom(rows, k + 1, InsertSbri(acc, rows[k]))

\* Line 160
SortSbri(rows) == SortSbriFrom(rows, 1, <<>>)

\* The call after a response that decoded: lines 106-160
ScrapeSbriEvents(s, events) ==
    IF \E i \in 1..Len(events) : IsRaised(ParseTsStart(events[i].tsstart))
    THEN Raised("DateParseError")
    ELSE IF Len(events) = 0 THEN EmptyDataFrame
    ELSE IF OddsConversionRaises(ProcessedRows(s, events)) THEN Raised("ZeroDivisionError")
    ELSE DataFrame(SbriColumns, SortSbri(ConvertOdds(ProcessedRows(s, events))))

\* --- the feeds of the model
MaxFeedItems == 5

\* (name, price) of the selections: decimal prices on both sides of 2.0, the
\* price 1.0 and a price below 1.0
SelectionPairs ==
    { <<Str("NYY"), Num(1, 1)>>, <<Str("NYY"), Num(5, 2)>>,
      <<Str("BOS"), Num(-1, 1)>>,
      <<Str("Over"), Num(5, 2)>>, <<Str("Under"), Num(3, 2)>>,
      <<Str("Draw"), Num(1, 1)>> }
MarketNames == {"Money Line", "Run Line", "Total Runs", "First Inning"}

Selections ==
    { [name |-> np[1], price |-> np[2], currenthandicap |-> Num(-3, 2),
       currentmatchhandicap |-> Num(17, 2)] : np \in SelectionPairs }

Events ==
    { [sportname |-> Str("Baseball"), tsstart |-> ts, externaldescription |-> Str("NYY @ BOS"),
       shortnameaway |-> Str("NYY"), shortnamehome |-> Str("BOS"), markets |-> <<>>] :
      ts \in {Str("2025-07-04T22:00:00"), Str("TBD")} }
    \cup
    { [sportname |-> Str("Baseball"), tsstart |-> Str("2025-07-04T19:00:00"),
       externaldescription |-> Str("BOS @ NYY"),
       shortnameaway |-> Str("BOS"), shortnamehome |-> Str("NYY"), markets |-> <<>>] }

RECURSIVE MarketItems(_, _)
MarketItems(markets, k) ==
    IF k > Len(markets) THEN 0 ELSE 1 + Len(markets[k].selections) + MarketItems(markets, k + 1)
RECURSIVE FeedItems(_, _)
FeedItems(events, k) ==
    IF k > Len(events) THEN 0 ELSE 1 + MarketItems(events[k].markets, 1) + FeedItems(events, k + 1)

\* A response with no event yet, the function not called; nothing else runs.
InitSbriScrape ==
    /\ sbri_pc = "feed"
    /\ script \in {"MLB2025fork1", "Football2025"}
    /\ feed = <<>>
    /\ sbri_ret = Unset
    /\ conv_pc = "idle" /\ conv_in = Unset /\ conv_mid = Unset /\ conv_out = Unset
    /\ pc = "idle" /\ sbri_df = <<>> /\ dratings_df = <<>> /\ outcome = "none" /\ final_df = <<>>
    /\ analysis_ready_df = <<>>
    /\ drate_pc = "idle" /\ page_num = 0 /\ all_dfs = <<>>
    /\ fetched = <<>> /\ fetch_log = <<>> /\ drate_ret = Unset
    /\ tpt_pc = "idle" /\ tpt_doc = Unset /\ tpt_ret = Unset
    /\ name_pc = "idle" /\ name_in = Unset /\ name_out = Unset /\ name_twice = Unset
    /\ main_pc = "idle" /\ main_script = "none" /\ main_gc = "unset" /\ main_src = 0
    /\ main_got = <<>> /\ main_log = <<>> /\ worksheets = <<>> /\ bq_tables = <<>>

sbri_frame == <<conv_pc, conv_in, conv_mid, conv_out, pc, sbri_df, dratings_df, outcome,
                final_df, analysis_ready_df, drate_pc, page_num, all_dfs, fetched, fetch_log, drate_ret, tpt_vars, driver_vars>>

\* One more event in the response.
AddEvent ==
    /\ sbri_pc = "feed"
    /\ FeedItems(feed, 1) < MaxFeedItems
    /\ \E e \in Events : feed' = Append(feed, e)
    /\ UNCHANGED <<sbri_pc, script, sbri_ret>>
    /\ UNCHANGED sbri_frame

\* One more market in the last event of the response.
AddMarket ==
    /\ sbri_pc = "feed"
    /\ Len(feed) > 0
    /\ FeedItems(feed, 1) < MaxFeedItems
    /\ \E n \in MarketNames :
           feed' = [feed EXCEPT ![Len(feed)].markets =
                        Append(@, [name |-> n, selections |-> <<>>])]
    /\ UNCHANGED <<sbri_pc, script, sbri_ret>>
    /\ UNCHANGED sbri_frame

\* One more selection in the last market of the last event.
AddSelection ==
    /\ sbri_pc = "feed"
    /\ Len(feed) > 0
    /\ Len(feed[Len(feed)].markets) > 0
    /\ FeedItems(feed, 1) < MaxFeedItems
    /\ \E sel \in Selections :
           feed' = [feed EXCEPT ![Len(feed)].markets[Len(feed[Len(feed)].markets)].selections =
                        Append(@, sel)]
    /\ UNCHANGED <<sbri_pc, script, sbri_ret>>
    /\ UNCHANGED sbri_frame

\* scrape_sbri_data() when the request fails or the body is no JSON (there
\* are no events then): lines 99-104.
ScrapeSbriFetchFails ==
    /\ sbri_pc = "feed"
    /\ feed = <<>>
    /\ sbri_pc' = "done"
    /\ sbri_ret' = Null
    /\ UNCHANGED <<script, feed>>
    /\ UNCHANGED sbri_frame

\* scrape_sbri_data() on the response, the whole call.
ScrapeSbriData ==
    /\ sbri_pc = "feed"
    /\ sbri_pc' = "done"
    /\ sbri_ret' = ScrapeSbriEvents(script, feed)
    /\ UNCHANGED <<script, feed>>
    /\ UNCHANGED sbri_frame

NextSbriScrape ==
    AddEvent \/ AddMarket \/ AddSelection \/ ScrapeSbriFetchFails \/ ScrapeSbriData

----------------------------------------------------------------------------
\* scrape_dratings_data: src/MLB2025fork1.py, lines 163-216 (the same text
\* in src/MLB2025.py, lines 140-199); src/mlb-sbri-drate/main.py, lines
\* 190-247 ("main"); src/Football2025.py, lines 223-254;
\* src/MLBHistoricData.py, lines 74-126.  One request per step; what the
\* request meets is chosen when it is made.

DratingsScripts == {"MLB2025fork1", "main", "Football2025", "MLBHistoricData"}

\* The pages of the loop that the model follows
MaxPages == 3

Min(a, b) == IF a < b THEN a ELSE b

\* range(3), range(9), range(2, num_pages_to_scrape + 2): the first and the
\* number of the pages of the loop (for MLBHistoricData the user asks for
\* MaxPages pages; of the 9 pages of Football2025 the first MaxPages)
FirstPage(s) == IF s = "MLBHistoricData" THEN 2 ELSE 0
PageCount(s) ==
    CASE s = "Football2025" -> Min(9, MaxPages)
      [] s = "MLBHistoricData" -> MaxPages
      [] OTHER -> 3
PastLastPage(s) == FirstPage(s) + PageCount(s)

\* time.sleep(...) at the end of the loop body; Football2025 has none
Sleeps(s) == s # "Football2025"

\* A table of a page: whether it has the column the script looks for
\* ('Pitchers', 'Final Runs'), whether it has ten columns or more, its rows.
Table(marker, wide, rows) == [marker |-> marker, wide |-> wide, rows |-> rows]
OtherTable == Table(FALSE, FALSE, <<>>)

T1900 == Str("2025-07-04T23:00:00Z")
T2200 == Str("2025-07-05T02:00:00Z")
TBD == Str("TBD")

PageRow(teams, time) == [Teams |-> teams, Time |-> time, Win |-> <<"40%", "60%">>]

\* The rows of the qualifying tables of the model: two games out of time
\* order; a game seen again with another time; the Athletics under both
\* names; a row without a date; no row.
RowLists ==
    { << PageRow(<<"NYY", WL, "BOS", WL>>, T2200), PageRow(<<"BOS", WL, "NYY", WL>>, T1900) >>,
      << PageRow(<<"NYY", WL, "BOS", WL>>, T1900) >>,
      << PageRow(<<"Oakland Athletics", WL, "NYY", WL>>, T2200),
         PageRow(<<"Athletics", WL, "NYY", WL>>, T1900) >>,
      << PageRow(<<"BOS", WL, "NYY", WL>>, TBD) >>,
      << >> }

\* pd.read_html(...) of a document with tables
PageTables ==
    { <<OtherTable>> } \cup { <<Table(TRUE, TRUE, rows)>> : rows \in RowLists }
    \cup { <<OtherTable, Table(TRUE, TRUE, rows)>> : rows \in RowLists }

\* The rows of a table, each with the page and the position it was read at
\* (pg and ix are not columns)
Stamp(rows, pg) == [i \in 1..Len(rows) |-> [Teams |-> rows[i].Teams, Time |-> rows[i].Time,
                                            Win |-> rows[i].Win, pg |-> pg, ix |-> i]]

\* The table of a page the script keeps, as a sequence of at most one table:
\* the first with the marker column; for Football2025 the first table of the
\* page if it has ten columns or more.
KeptTable(s, tables) ==
    IF s = "Football2025"
    THEN (IF tables[1].wide THEN <<tables[1]>> ELSE <<>>)
    ELSE LET marked == SelectSeq(tables, LAMBDA t : t.marker)
         IN  IF Len(marked) > 0 THEN <<marked[1]>> ELSE <<>>

\* pd.concat(all_dfs, ignore_index=True)
RECURSIVE Concat(_, _)
Concat(dfs, k) == IF k > Len(dfs) THEN <<>> ELSE dfs[k] \o Concat(dfs, k + 1)

\* drop_duplicates(subset='Teams'): the first row of every key stays
RECURSIVE DropDuplicates(_, _)
DropDuplicates(rows, k) ==
    IF k > Len(rows) THEN <<>>
    ELSE IF \E j \in 1..(k - 1) : rows[j].Teams = rows[k].Teams
         THEN DropDuplicates(rows, k + 1)
         ELSE <<rows[k]>> \o DropDuplicates(rows, k + 1)

\* str.replace('Oakland Athletics', 'Athletics') on the words of a text
ReplaceOakland(words) ==
    [i \in 1..Len(words) |-> IF words[i] = "Oakland Athletics" THEN "Athletics" ELSE words[i]]
RenamesOakland(s) == s \in {"MLB2025fork1", "main"}

\* pd.to_datetime(..., format='mixed', utc=True, errors='coerce')
ParseTimeUtc(v) ==
    CASE v = T1900 -> Ts(23, "UTC")
      [] v = T2200 -> Ts(26, "UTC")
      [] OTHER -> Null
CleansTime(s) == s # "MLBHistoricData"

\* Replace, to_datetime, dropna(subset=['Time']), tz_convert
CleanTimes(s, rows) ==
    LET renamed == [i \in 1..Len(rows) |->
                       IF RenamesOakland(s)
                       THEN [rows[i] EXCEPT !.Teams = ReplaceOakland(@)] ELSE rows[i]]
        parsed == [i \in 1..Len(rows) |-> [renamed[i] EXCEPT !.Time = ParseTimeUtc(@)]]
        dated == SelectSeq(parsed, LAMBDA r : NotNA(r.Time))
    IN  IF CleansTime(s)
        THEN [i \in 1..Len(dated) |-> [dated[i] EXCEPT !.Time = TzConvertNY(@)]]
        ELSE renamed

\* sort_values(by=['Time', 'Teams']): the keys of a row.  MLBHistoricData
\* sorts the texts of the 'Time' column as texts.
TimeKey(v) ==
    CASE v.t = "ts" -> v.utc
      [] v = T1900 -> 1
      [] v = T2200 -> 2
      [] OTHER -> 3
TeamsKey(words) == 10 * TextRank(Str(words[1])) + TextRank(Str(words[3]))
DratingsBefore(a, b) ==
    \/ TimeKey(a.Time) < TimeKey(b.Time)
    \/ TimeKey(a.Time) = TimeKey(b.Time) /\ TeamsKey(a.Teams) < TeamsKey(b.Teams)

InsertDratings(sorted, r) ==
    SelectSeq(sorted, LAMBDA x : ~DratingsBefore(r, x)) \o <<r>>
        \o SelectSeq(sorted, LAMBDA x : DratingsBefore(r, x))
RECURSIVE SortDratingsFrom(_, _, _)
SortDratingsFrom(rows, k, acc) ==
    IF k > Len(rows) THEN acc ELSE SortDratingsFrom(rows, k + 1, InsertDratings(acc, rows[k]))
SortDratings(rows) == SortDratingsFrom(rows, 1, <<>>)

DratingsColumns == <<"Time", "Teams", "Win">>

\* What the script returns when no table was kept
NoData(s) == IF s = "main" THEN EmptyDataFrame ELSE Null

\* The end of the call, after the loop
FinishDratings(s, dfs) ==
    IF Len(dfs) = 0 THEN NoData(s)
    ELSE DataFrame(DratingsColumns,
                   SortDratings(CleanTimes(s, DropDuplicates(Concat(dfs, 1), 1))))

\* What a request met
FetchFailed == [o |-> "fetch-failed", tables |-> <<>>]
NoTables == [o |-> "no-tables", tables |-> <<>>]
Parsed(tables) == [o |-> "tables", tables |-> tables]

\* The first request about to be made, nothing else running.
InitDratingsScrape ==
    /\ drate_pc = "fetch"
    /\ script \in DratingsScripts
    /\ page_num = FirstPage(script)
    /\ all_dfs = <<>>
    /\ fetched = <<>>
    /\ fetch_log = <<>>
    /\ drate_ret = Unset
    /\ conv_pc = "idle" /\ conv_in = Unset /\ conv_mid = Unset /\ conv_out = Unset
    /\ pc = "idle" /\ sbri_df = <<>> /\ dratings_df = <<>> /\ outcome = "none" /\ final_df = <<>>
    /\ analysis_ready_df = <<>>
    /\ sbri_pc = "idle" /\ feed = <<>> /\ sbri_ret = Unset
    /\ tpt_pc = "idle" /\ tpt_doc = Unset /\ tpt_ret = Unset
    /\ name_pc = "idle" /\ name_in = Unset /\ name_out = Unset /\ name_twice = Unset
    /\ main_pc = "idle" /\ main_script = "none" /\ main_gc = "unset" /\ main_src = 0
    /\ main_got = <<>> /\ main_log = <<>> /\ worksheets = <<>> /\ bq_tables = <<>>

drate_frame == <<conv_pc, conv_in, conv_mid, conv_out, pc, sbri_df, dratings_df, outcome,
                 final_df, analysis_ready_df, sbri_vars, tpt_vars, driver_vars>>

\* The end of the loop body: the pause comes next where the script has one,
\* the next page (or the end of the loop) where it has none.
EndOfBody ==
    IF Sleeps(script)
    THEN drate_pc' = "pause" /\ page_num' = page_num
    ELSE /\ page_num' = page_num + 1
         /\ drate_pc' = IF page_num + 1 < PastLastPage(script) THEN "fetch" ELSE "finish"

\* mlb-sbri-drate/main.py only: DRATINGS_URL is not set, no request is made.
UrlNotSet ==
    /\ drate_pc = "fetch"
    /\ script = "main"
    /\ fetched = <<>>
    /\ drate_pc' = "done"
    /\ drate_ret' = Null
    /\ UNCHANGED <<script, page_num, all_dfs, fetched, fetch_log>>
    /\ UNCHANGED drate_frame

\* session.get / raise_for_status raises a RequestException (no connection,
\* bad status, the 15 s timeout); the except clause logs it.
FetchFails ==
    /\ drate_pc = "fetch"
    /\ fetched' = Append(fetched, FetchFailed)
    /\ fetch_log' = Append(fetch_log, "get")
    /\ EndOfBody
    /\ UNCHANGED <<script, all_dfs, drate_ret>>
    /\ UNCHANGED drate_frame

\* The request succeeds and pd.read_html finds no table in the document: it
\* raises ValueError, which is no RequestException.
ParseFails ==
    /\ drate_pc = "fetch"
    /\ fetched' = Append(fetched, NoTables)
    /\ fetch_log' = Append(fetch_log, "get")
    /\ drate_pc' = "done"
    /\ drate_ret' = Raised("ValueError")
    /\ UNCHANGED <<script, page_num, all_dfs>>
    /\ UNCHANGED drate_frame

\* The request succeeds and the document has tables.
ParsePage ==
    /\ drate_pc = "fetch"
    /\ \E tables \in PageTables :
           /\ fetched' = Append(fetched, Parsed(tables))
           /\ all_dfs' = all_dfs \o
                  [k \in 1..Len(KeptTable(script, tables)) |->
                      Stamp(KeptTable(script, tables)[k].rows, page_num)]
    /\ fetch_log' = Append(fetch_log, "get")
    /\ EndOfBody
    /\ UNCHANGED <<script, drate_ret>>
    /\ UNCHANGED drate_frame

\* time.sleep(...), then the next iteration.
Pause ==
    /\ drate_pc = "pause"
    /\ fetch_log' = Append(fetch_log, "sleep")
    /\ page_num' = page_num + 1
    /\ drate_pc' = IF page_num + 1 < PastLastPage(script) THEN "fetch" ELSE "finish"
    /\ UNCHANGED <<script, all_dfs, fetched, drate_ret>>
    /\ UNCHANGED drate_frame

\* After the loop: no data, or the cleaned table.
FinishScrape ==
    /\ drate_pc = "finish"
    /\ drate_pc' = "done"
    /\ drate_ret' = FinishDratings(script, all_dfs)
    /\ UNCHANGED <<script, page_num, all_dfs, fetched, fetch_log>>
    /\ UNCHANGED drate_frame

NextDratingsScrape ==
    UrlNotSet \/ FetchFails \/ ParseFails \/ ParsePage \/ Pause \/ FinishScrape

----------------------------------------------------------------------------
\* scrape_tpt_data (src/Football2025.py, lines 256-338)
\*
\* The document is whether it has a <pre> block and the lines of the text of
\* that block, each line by its kind:
\*   "header"  a line with the phrase 'Home                Visitor'
\*   "rule"    a line of dashes
\*   "data"    a line of the table: home team, visitor, the numbers
\*   "text"    a short line of prose (it ends before column 19)
\*   "number"  a line that is one number (it ends before column 19)
\*   "sep"     a line that starts with '__________'
\*   "blank"   an empty line

\* A table in which one full name is itself a short name of the table.
TEAM_NAME_MAP_chained ==
    << <<"N.Y. Jets", "New York Jets">>,
       <<"Jets", "N.Y. Jets">>,
       <<"Dallas", "Dallas Cowboys">>,
       <<"Cowboys", "Dallas">> >>

\* TEAM_NAME_MAP, lines 80-145, as (short name, full name) pairs
TEAM_NAME_MAP ==
    << <<"Arizona", "Arizona Cardinals">>,
       <<"Atlanta", "Atlanta Falcons">>,
       <<"Baltimore", "Baltimore Ravens">>,
       <<"Buffalo", "Buffalo Bills">>,
       <<"Carolina", "Carolina Panthers">>,
       <<"Chicago", "Chicago Bears">>,
       <<"Cincinnati", "Cincinnati Bengals">>,
       <<"Cleveland", "Cleveland Browns">>,
       <<"Dallas", "Dallas Cowboys">>,
       <<"Denver", "Denver Broncos">>,
       <<"Detroit", "Detroit Lions">>,
       <<"Green Bay", "Green Bay Packers">>,
       <<"Houston", "Houston Texans">>,
       <<"Indianapolis", "Indianapolis Colts">>,
       <<"Jacksonville", "Jacksonville Jaguars">>,
       <<"Kansas City", "Kansas City Chiefs">>,
       <<"Las Vegas", "Las Vegas Raiders">>,
       <<"LA Chargers", "Los Angeles Chargers">>,
       <<"LA Rams", "Los Angeles Rams">>,
       <<"Miami", "Miami Dolphins">>,
       <<"Minnesota", "Minnesota Vikings">>,
       <<"New England", "New England Patriots">>,
       <<"New Orleans", "New Orleans Saints">>,
       <<"N.Y. Giants", "New York Giants">>,
       <<"N.Y. Jets", "New York Jets">>,
       <<"Philadelphia", "Philadelphia Eagles">>,
       <<"Pittsburgh", "Pittsburgh Steelers">>,
       <<"San Francisco", "San Francisco 49ers">>,
       <<"Seattle", "Seattle Seahawks">>,
       <<"Tampa Bay", "Tampa Bay Buccaneers">>,
       <<"Tennessee", "Tennessee Titans">>,
       <<"Washington", "Washington Commanders">>,
       <<"Eagles", "Philadelphia Eagles">>,
       <<"Cowboys", "Dallas Cowboys">>,
       <<"Chargers", "Los Angeles Chargers">>,
       <<"Chiefs", "Kansas City Chiefs">>,
       <<"Colts", "Indianapolis Colts">>,
       <<"Dolphins", "Miami Dolphins">>,
       <<"Jets", "New York Jets">>,
       <<"Steelers", "Pittsburgh Steelers">>,
       <<"Giants", "New York Giants">>,
       <<"Falcons", "Atlanta Falcons">>,
       <<"Buccaneers", "Tampa Bay Buccaneers">>,
       <<"Saints", "New Orleans Saints">>,
       <<"Cardinals", "Arizona Cardinals">>,
       <<"Browns", "Cleveland Browns">>,
       <<"Bengals", "Cincinnati Bengals">>,
       <<"Jaguars", "Jacksonville Jaguars">>,
       <<"Panthers", "Carolina Panthers">>,
       <<"Patriots", "New England Patriots">>,
       <<"Raiders", "Las Vegas Raiders">>,
       <<"Broncos", "Denver Broncos">>,
       <<"Titans", "Tennessee Titans">>,
       <<"Seahawks", "Seattle Seahawks">>,
       <<"Niners", "San Francisco 49ers">>,
       <<"Rams", "Los Angeles Rams">>,
       <<"Texans", "Houston Texans">>,
       <<"Packers", "Green Bay Packers">>,
       <<"Lions", "Detroit Lions">>,
       <<"Bills", "Buffalo Bills">>,
       <<"Ravens", "Baltimore Ravens">>,
       <<"Bears", "Chicago Bears">>,
       <<"Vikings", "Minnesota Vikings">> >>

\* Some names written in other letter case, each with the key it spells
CaseVariants ==
    { <<"jets", "Jets">>, <<"JETS", "Jets">>, <<"dallas", "Dallas">>,
      <<"n.y. giants", "N.Y. Giants">>, <<"NINERS", "Niners">> }

\* The short names and the full names of the table
ShortNames == {TEAM_NAME_MAP[k][1] : k \in 1..Len(TEAM_NAME_MAP)}
FullNames == {TEAM_NAME_MAP[k][2] : k \in 1..Len(TEAM_NAME_MAP)}

\* A replacement that ignores letter case.
ReplaceTeamName_anycase(v) ==
    IF v.t # "str" THEN v
    ELSE LET spelt == {v.s} \cup {cv[2] : cv \in {c \in CaseVariants : c[1] = v.s}}
             hit == {k \in 1..Len(TEAM_NAME_MAP) : TEAM_NAME_MAP[k][1] \in spelt}
         IN  IF hit = {} THEN v ELSE Str(TEAM_NAME_MAP[CHOOSE k \in hit : TRUE][2])

\* Series.replace(TEAM_NAME_MAP) on one cell: a cell equal to a key becomes
\* that key's value, any other cell stays.
ReplaceTeamName(v) ==
    IF v.t = "str" /\ \E k \in 1..Len(TEAM_NAME_MAP) : TEAM_NAME_MAP[k][1] = v.s
    THEN Str(TEAM_NAME_MAP[CHOOSE k \in 1..Len(TEAM_NAME_MAP) : TEAM_NAME_MAP[k][1] = v.s][2])
    ELSE v

LineKinds == {"header", "rule", "data", "text", "number", "sep", "blank"}

\* full_text.find(header_start): the first line with the phrase, 0 if none
\* (the code's -1)
RECURSIVE FirstOf(_, _, _)
FirstOf(lines, kind, k) ==
    IF k > Len(lines) THEN 0
    ELSE IF lines[k] = kind THEN k ELSE FirstOf(lines, kind, k + 1)

\* Line 287: the text from the header on, without its first two lines
AfterHeader(lines) == SubSeq(lines, FirstOf(lines, "header", 1) + 2, Len(lines))

\* Lines 290-292: the text before the first separator, all of it if none
BeforeSeparator(lines) ==
    IF FirstOf(lines, "sep", 1) = 0 THEN lines
    ELSE SubSeq(lines, 1, FirstOf(lines, "sep", 1) - 1)

\* pd.read_fwf on one line: the 'Home' and 'Visitor' cells (columns 0-19
\* and 19-39) as read; the other ten columns are not touched by the code.
FwfRow(kind) ==
    CASE kind = "data" -> [Home |-> Str("N.Y. Giants"), Visitor |-> Str("Dallas")]
      [] kind = "header" -> [Home |-> Str("Home"), Visitor |-> Str("Visitor")]
      [] kind = "rule" -> [Home |-> Str("-------------------"), Visitor |-> Str("--------------------")]
      [] kind = "text" -> [Home |-> Str("Last updated"), Visitor |-> NaN]
      [] kind = "number" -> [Home |-> Num(2024, 1), Visitor |-> NaN]
      [] kind = "sep" -> [Home |-> Str("___________________"), Visitor |-> Str("____________________")]

\* read_fwf skips blank lines
ReadFwf(lines) ==
    LET kept == SelectSeq(lines, LAMBDA l : l # "blank")
    IN  [i \in 1..Len(kept) |-> FwfRow(kept[i])]

\* A column read by read_fwf holds texts as soon as one cell is no number
\* and not missing; it is a column of floats otherwise.
IsTextColumn(rows, c) == \E i \in 1..Len(rows) : rows[i][c].t = "str"
\* A number in a column of texts is read as its text
AsText(v) == IF v = Num(2024, 1) THEN Str("2024") ELSE v

\* Visitor + ' at ' + Home: missing if either side is
Matchup(visitor, home) ==
    IF visitor.t = "str" /\ home.t = "str"
    THEN [t |-> "cat", parts |-> <<visitor.s, " at ", home.s>>]
    ELSE NaN

TptColumns ==
    <<"Home", "Visitor", "OpeningLine", "UpdatedLine", "MidweekLine", "PredictionAvg",
      "PredictionMedian", "PredictionStdDev", "PredictionMin", "PredictionMax",
      "ProbabilityWins", "ProbabilityCovers", "Matchup">>

\* Lines 318-331 on a row
TptRow(r) ==
    LET home == ReplaceTeamName(AsText(r.Home))
        visitor == ReplaceTeamName(AsText(r.Visitor))
    IN  [Home |-> home, Visitor |-> visitor, Matchup |-> Matchup(visitor, home)]

\* Lines 267-331 on a fetched document: None, the table, or the exception
\* raised on the way (read_fwf on a text without a line; .str on a column
\* that holds no text).
ParseTptDocument(doc) ==
    IF ~doc.pre THEN Null
    ELSE IF FirstOf(doc.lines, "header", 1) = 0 THEN Null
    ELSE LET rows == ReadFwf(BeforeSeparator(AfterHeader(doc.lines)))
         IN  IF Len(rows) = 0 THEN Raised("EmptyDataError")
             ELSE IF ~IsTextColumn(rows, "Home") \/ ~IsTextColumn(rows, "Visitor")
                  THEN Raised("AttributeError")
                  ELSE DataFrame(TptColumns, [i \in 1..Len(rows) |-> TptRow(rows[i])])

\* The handler of lines 336-338 left out.
ScrapeTptDocument_nocatch(doc) == ParseTptDocument(doc)

\* except Exception (lines 336-338): whatever is raised ends as None
ScrapeTptDocument(doc) ==
    LET r == ParseTptDocument(doc) IN IF IsRaised(r) THEN Null ELSE r

\* --- the documents of the model
MaxLines == 4

\* A fetched document with no line yet, the function not called.
InitTptScrape ==
    /\ tpt_pc = "doc"
    /\ tpt_doc \in {[pre |-> b, lines |-> <<>>] : b \in BOOLEAN}
    /\ tpt_ret = Unset
    /\ conv_pc = "idle" /\ conv_in = Unset /\ conv_mid = Unset /\ conv_out = Unset
    /\ pc = "idle" /\ sbri_df = <<>> /\ dratings_df = <<>> /\ outcome = "none" /\ final_df = <<>>
    /\ analysis_ready_df = <<>>
    /\ sbri_pc = "idle" /\ feed = <<>> /\ sbri_ret = Unset
    /\ drate_pc = "idle" /\ script = "none" /\ page_num = 0 /\ all_dfs = <<>>
    /\ fetched = <<>> /\ fetch_log = <<>> /\ drate_ret = Unset
    /\ name_pc = "idle" /\ name_in = Unset /\ name_out = Unset /\ name_twice = Unset
    /\ main_pc = "idle" /\ main_script = "none" /\ main_gc = "unset" /\ main_src = 0
    /\ main_got = <<>> /\ main_log = <<>> /\ worksheets = <<>> /\ bq_tables = <<>>

tpt_frame == <<conv_pc, conv_in, conv_mid, conv_out, pc, sbri_df, dratings_df, outcome,
               final_df, analysis_ready_df, sbri_vars, drate_vars, driver_vars>>

\* One more line in the <pre> block of the document.
AddLine ==
    /\ tpt_pc = "doc"
    /\ tpt_doc.pre
    /\ Len(tpt_doc.lines) < MaxLines
    /\ \E l \in LineKinds : tpt_doc' = [tpt_doc EXCEPT !.lines = Append(@, l)]
    /\ UNCHANGED <<tpt_pc, tpt_ret>>
    /\ UNCHANGED tpt_frame

\* scrape_tpt_data() when the request fails: lines 333-335.
ScrapeTptFetchFails ==
    /\ tpt_pc = "doc"
    /\ tpt_doc.lines = <<>>
    /\ tpt_pc' = "done"
    /\ tpt_ret' = Null
    /\ UNCHANGED tpt_doc
    /\ UNCHANGED tpt_frame

\* scrape_tpt_data() on the fetched document, the whole call.
ScrapeTptData ==
    /\ tpt_pc = "doc"
    /\ tpt_pc' = "done"
    /\ tpt_ret' = ScrapeTptDocument(tpt_doc)
    /\ UNCHANGED tpt_doc
    /\ UNCHANGED tpt_frame

NextTptScrape == AddLine \/ ScrapeTptFetchFails \/ ScrapeTptData

----------------------------------------------------------------------------
\* The team-name replacement on one cell (src/Football2025.py, lines 327-328
\* in scrape_tpt_data and 368-369 in scrape_ffwin_data)

\* Names that are no key of the table: unknown ones, keys in other letter
\* case, parts of keys and of full names, a key inside a longer text.
OtherNames ==
    {cv[1] : cv \in CaseVariants}
        \cup {"Unknown City XYZ", "Commanders", "New York", "N.Y.", "49ers", "Jets fans", ""}

\* The cells of the model: every key, every full name, the other names, and
\* a missing cell.
NameCells == {Str(n) : n \in ShortNames \cup FullNames \cup OtherNames} \cup {NaN}

\* A stripped cell of the column, the replacement not applied yet.
InitTeamNames ==
    /\ name_pc = "start"
    /\ name_in \in NameCells
    /\ name_out = Unset
    /\ name_twice = Unset
    /\ conv_pc = "idle" /\ conv_in = Unset /\ conv_mid = Unset /\ conv_out = Unset
    /\ pc = "idle" /\ sbri_df = <<>> /\ dratings_df = <<>> /\ outcome = "none" /\ final_df = <<>>
    /\ analysis_ready_df = <<>>
    /\ sbri_pc = "idle" /\ feed = <<>> /\ sbri_ret = Unset
    /\ drate_pc = "idle" /\ script = "none" /\ page_num = 0 /\ all_dfs = <<>>
    /\ fetched = <<>> /\ fetch_log = <<>> /\ drate_ret = Unset
    /\ tpt_pc = "idle" /\ tpt_doc = Unset /\ tpt_ret = Unset
    /\ main_pc = "idle" /\ main_script = "none" /\ main_gc = "unset" /\ main_src = 0
    /\ main_got = <<>> /\ main_log = <<>> /\ worksheets = <<>> /\ bq_tables = <<>>

name_frame == <<conv_pc, conv_in, conv_mid, conv_out, pc, sbri_df, dratings_df, outcome,
                final_df, analysis_ready_df, sbri_vars, drate_vars, tpt_vars, main_vars>>

\* df['Home'].replace(TEAM_NAME_MAP) on the cell.
ResolveTeamName ==
    /\ name_pc = "start"
    /\ name_pc' = "once"
    /\ name_out' = ReplaceTeamName(name_in)
    /\ UNCHANGED <<name_in, name_twice>>
    /\ UNCHANGED name_frame

\* The replacement applied to its own result.
ResolveAgain ==
    /\ name_pc = "once"
    /\ name_pc' = "twice"
    /\ name_twice' = ReplaceTeamName(name_out)
    /\ UNCHANGED <<name_in, name_out>>
    /\ UNCHANGED name_frame

NextTeamNames == ResolveTeamName \/ ResolveAgain

----------------------------------------------------------------------------
\* main() of the scripts: src/Football2025.py, lines 375-411; src/MLB2025.py,
\* lines 203-226; src/MLB2025fork1.py, lines 314-358;
\* src/mlb-sbri-drate/main.py, lines 252-291 ("main");
\* src/MLBHistoricData.py, lines 131-157.  One call of a scraper or of a
\* writer per step; what a request meets is chosen when it is made.

MainScripts == {"Football2025", "MLB2025", "MLB2025fork1", "main", "MLBHistoricData"}

\* The sources of a run, in the order main processes them; the analysis of
\* MLB2025fork1 is the source of its one worksheet.
Sources(s) ==
    CASE s = "Football2025" -> <<"sbri", "dratings", "tpt", "ffwin">>
      [] s = "MLB2025fork1" -> <<"sbri", "dratings", "analysis">>
      [] s = "MLBHistoricData" -> <<"dratings">>
      [] OTHER -> <<"sbri", "dratings">>
SourceNames == {"sbri", "dratings", "tpt", "ffwin", "analysis"}

\* MLB2025fork1 writes the analysis only; main.py also appends to BigQuery
HasSink(s, src) == s # "MLB2025fork1" \/ src = "analysis"
WritesBigQuery(s) == s = "main"

\* A test that lets an empty table through.
HasData_notnone(v) == v # Null

\* "x_df is not None and not x_df.empty"
HasData(v) == v # Null /\ ~IsEmpty(v)

\* The run goes on without a client.
AfterAuthorization_goes_on(gc) == "scrape"

\* "if not gc: ... return"
AfterAuthorization(gc) == IF gc = "client" THEN "scrape" ELSE "unauthorized"

\* How a write ends for main when nothing is caught: a failure leaves the
\* function.
write_df_to_sheet_nocatch(ended) ==
    IF ended = "written" THEN Null ELSE Raised("Exception")

\* write_df_to_sheet: every exception of the four calls is caught and
\* logged, the function returns None
write_df_to_sheet(ended) == Null

\* write_df_to_bigquery: every exception of the load is caught and logged,
\* the function returns None
write_df_to_bigquery(ended) == Null

\* What the worksheet holds after write_df_to_sheet: the table; nothing when
\* the failure came after worksheet.clear(); what it held before otherwise
SheetOutcomes == {"written", "not-found", "failed-before-clear", "failed-after-clear"}
WorksheetAfter(before, ended, df) ==
    CASE ended = "written" -> df
      [] ended = "failed-after-clear" -> Str("cleared")
      [] OTHER -> before
Prior == Str("prior contents")

\* --- what the requests of a run meet

Selection(name, price) ==
    [name |-> Str(name), price |-> price, currenthandicap |-> Num(-3, 2),
     currentmatchhandicap |-> Num(17, 2)]
EventWith(selections) ==
    [sportname |-> Str("Baseball"), tsstart |-> Str("2025-07-04T22:00:00"),
     externaldescription |-> Str("NYY @ BOS"),
     shortnameaway |-> Str("NYY"), shortnamehome |-> Str("BOS"),
     markets |-> << [name |-> "Money Line", selections |-> selections] >>]

\* The JSON responses: no event; one event with both moneylines; one event
\* with a price of 1.0
SbriFeeds ==
    { <<>>,
      << EventWith(<<Selection("NYY", Num(5, 2)), Selection("BOS", Num(5, 2))>>) >>,
      << EventWith(<<Selection("NYY", Num(1, 1))>>) >> }
SbriMet == {FetchFailed} \cup {[o |-> "feed", events |-> f] : f \in SbriFeeds}

\* scrape_sbri_data() on what its request met
ScrapeSbri(s, met) ==
    IF met.o = "fetch-failed" THEN Null ELSE ScrapeSbriEvents(s, met.events)

\* MLB2025.py has the scrape_dratings_data of MLB2025fork1.py
DratingsOf(s) == IF s = "MLB2025" THEN "MLB2025fork1" ELSE s

\* The pages of a call: the first as given, the others failing
PagesWith(s, first) ==
    [k \in 1..PageCount(DratingsOf(s)) |-> IF k = 1 THEN first ELSE FetchFailed]
DratingsMet(s) ==
    { PagesWith(s, f) :
        f \in {FetchFailed, NoTables, Parsed(<<OtherTable>>)}
              \cup {Parsed(<<Table(TRUE, TRUE, rows)>>) :
                      rows \in { << PageRow(<<"NYY", WL, "BOS", WL>>, T2200) >>,
                                 << PageRow(<<"BOS", WL, "NYY", WL>>, TBD) >> }} }

RECURSIVE KeptOfPages(_, _, _)
KeptOfPages(s, met, k) ==
    IF k > Len(met) THEN <<>>
    ELSE (IF met[k].o = "tables" /\ Len(KeptTable(s, met[k].tables)) > 0
          THEN << Stamp(KeptTable(s, met[k].tables)[1].rows, FirstPage(s) + k - 1) >>
          ELSE <<>>) \o KeptOfPages(s, met, k + 1)

\* scrape_dratings_data() on what its requests met: the ValueError of
\* pd.read_html leaves the function, the loop otherwise ends and the kept
\* tables are cleaned
ScrapeDratings(s, met) ==
    IF \E k \in 1..Len(met) : met[k].o = "no-tables" THEN Raised("ValueError")
    ELSE FinishDratings(DratingsOf(s), KeptOfPages(DratingsOf(s), met, 1))

TptMet ==
    {FetchFailed}
        \cup {[o |-> "doc", doc |-> d] :
                d \in { [pre |-> FALSE, lines |-> <<>>],
                        [pre |-> TRUE, lines |-> <<"header", "rule">>],
                        [pre |-> TRUE, lines |-> <<"header", "rule", "data">>] }}

\* scrape_tpt_data() on what its request met
ScrapeTpt(met) == IF met.o = "fetch-failed" THEN Null ELSE ScrapeTptDocument(met.doc)

\* scrape_ffwin_data (src/Football2025.py, lines 340-371).  A table of the
\* FFWin page is its column labels and the 'HOME' and 'AWAY' cells of its rows.
FfwinTables ==
    { [columns |-> <<"HOME", "AWAY", "LINE">>,
       rows |-> << [HOME |-> Str(" Dallas "), AWAY |-> Str("Jets")] >>],
      [columns |-> <<"HOME", "AWAY", "LINE">>, rows |-> <<>>],
      [columns |-> <<"Home Team", "Away Team", "Line">>, rows |-> <<>>],
      [columns |-> <<"HOME", "AWAY">>,
       rows |-> << [HOME |-> Str(" Dallas "), AWAY |-> Str("Jets")] >>] }
FfwinMet == {FetchFailed, NoTables} \cup {Parsed(<<t>>) : t \in FfwinTables}

\* Series.str.strip() on the cells of the model
StrStrip(v) == IF v = Str(" Dallas ") THEN Str("Dallas") ELSE v

HasColumn(table, c) == \E i \in 1..Len(table.columns) : table.columns[i] = c

\* Lines 364-371 on one row
FfwinRow(r) ==
    LET home == ReplaceTeamName(StrStrip(r.HOME))
        away == ReplaceTeamName(StrStrip(r.AWAY))
    IN  [HOME |-> home, AWAY |-> away, Matchup |-> Matchup(away, home)]

\* scrape_ffwin_data() on what its request met: only RequestException is
\* caught (line 359); pd.read_html on a page without tables raises
\* ValueError, df['HOME'] on a table without that column raises KeyError.
scrape_ffwin_data(met) ==
    IF met.o = "fetch-failed" THEN Null
    ELSE IF met.o = "no-tables" THEN Raised("ValueError")
    ELSE LET t == met.tables[1]
         IN  IF Len(t.columns) < 3 THEN Null
             ELSE IF ~HasColumn(t, "HOME") \/ ~HasColumn(t, "AWAY") THEN Raised("KeyError")
             ELSE DataFrame(t.columns \o <<"Matchup">>,
                            [i \in 1..Len(t.rows) |-> FfwinRow(t.rows[i])])

\* The tables of the scrapers as perform_baseball_analysis reads them: None
\* and a table without columns make the try block of lines 227-248 raise,
\* as a table without rows does.
AsSbriInput(v) ==
    IF v = Null \/ IsEmpty(v) THEN <<>>
    ELSE [i \in 1..Len(v.rows) |->
            [GameStart |-> v.rows[i].GameStart, Game |-> v.rows[i].Game,
             AwayTeam |-> v.rows[i].AwayTeam, HomeTeam |-> v.rows[i].HomeTeam,
             HomeMLOdds |-> v.rows[i].HomeMLOdds, AwayMLOdds |-> v.rows[i].AwayMLOdds]]
AsDratingsInput(v) ==
    IF v = Null \/ IsEmpty(v) THEN <<>>
    ELSE [i \in 1..Len(v.rows) |->
            [Time |-> v.rows[i].Time, Teams |-> v.rows[i].Teams, Win |-> v.rows[i].Win]]

FinalColumns ==
    <<"Timestamp", "HomeTeam", "AwayTeam", "Game", "Home MLOdds", "Away MLOdds", "Teams",
      "AwayWinProb_pred", "HomeWinProb_pred", "Status", "BestBetTeam", "BestBetValue">>

\* perform_baseball_analysis(sbri_df, dratings_df) as main calls it
perform_baseball_analysis(sbri, dratings) ==
    LET S == AsSbriInput(sbri)
        D == AsDratingsInput(dratings)
    IN  CASE OutcomeOf(S, D) = "raised" -> Raised("ZeroDivisionError")
          [] OutcomeOf(S, D) = "empty" -> EmptyDataFrame
          [] OTHER -> DataFrame(FinalColumns, FinalDf(MergedDf(S, D)))

\* --- the run

\* The script is about to start; the worksheets hold what earlier runs left.
InitMain ==
    /\ main_script \in MainScripts
    /\ main_pc = IF main_script = "MLBHistoricData" THEN "prompt" ELSE "auth"
    /\ main_gc = "unset"
    /\ main_src = 1
    /\ main_got = <<>>
    /\ main_log = <<>>
    /\ worksheets = [n \in SourceNames |-> Prior]
    /\ bq_tables = [n \in SourceNames |-> <<>>]
    /\ conv_pc = "idle" /\ conv_in = Unset /\ conv_mid = Unset /\ conv_out = Unset
    /\ pc = "idle" /\ sbri_df = <<>> /\ dratings_df = <<>> /\ outcome = "none" /\ final_df = <<>>
    /\ analysis_ready_df = <<>>
    /\ sbri_pc = "idle" /\ feed = <<>> /\ sbri_ret = Unset
    /\ drate_pc = "idle" /\ script = "none" /\ page_num = 0 /\ all_dfs = <<>>
    /\ fetched = <<>> /\ fetch_log = <<>> /\ drate_ret = Unset
    /\ tpt_pc = "idle" /\ tpt_doc = Unset /\ tpt_ret = Unset
    /\ name_pc = "idle" /\ name_in = Unset /\ name_out = Unset /\ name_twice = Unset

main_frame == <<conv_pc, conv_in, conv_mid, conv_out, pc, sbri_df, dratings_df, outcome,
                final_df, analysis_ready_df, sbri_vars, drate_vars, tpt_vars, name_vars>>

Logged(e, src, how) == [e |-> e, src |-> src, how |-> how]
Source == Sources(main_script)[main_src]

\* None, an empty table, a table with rows, or an exception
Kind(r) ==
    IF IsRaised(r) THEN "raised" ELSE IF r = Null THEN "none"
    ELSE IF IsEmpty(r) THEN "empty" ELSE "data"

\* The next source, or 'Script finished' after the last
Advance(log) ==
    IF main_src < Len(Sources(main_script))
    THEN main_pc' = "scrape" /\ main_src' = main_src + 1 /\ main_log' = log
    ELSE /\ main_pc' = "finished"
         /\ main_src' = main_src
         /\ main_log' = Append(log, Logged("finished", 0, "info"))

\* What follows the call of a scraper: an exception leaves main; a table
\* with rows goes to the worksheet; the update is skipped otherwise
AfterScrape(r) ==
    LET log == Append(main_log, Logged("scrape", main_src, Kind(r)))
    IN  /\ main_got' = Append(main_got, r)
        /\ IF IsRaised(r)
           THEN main_pc' = "aborted" /\ main_src' = main_src /\ main_log' = log
           ELSE IF ~HasSink(main_script, Source) THEN Advance(log)
           ELSE IF HasData(r)
                THEN main_pc' = "sheet" /\ main_src' = main_src /\ main_log' = log
                ELSE Advance(Append(log, Logged("skip", main_src, "error")))
        /\ UNCHANGED <<main_script, main_gc, worksheets, bq_tables>>
        /\ UNCHANGED main_frame

\* MLBHistoricData.py lines 136-143: the number of pages is asked for; an
\* answer that is no positive number ends the run.
Prompt ==
    /\ main_pc = "prompt"
    /\ \E answer \in {"abc", "0", "3"} :
           IF answer = "3"
           THEN main_pc' = "auth" /\ main_log' = main_log
           ELSE /\ main_pc' = "rejected"
                /\ main_log' = Append(main_log, Logged("input", 0, "error"))
    /\ UNCHANGED <<main_script, main_gc, main_src, main_got, worksheets, bq_tables>>
    /\ UNCHANGED main_frame

\* gc = get_google_sheet_client(...): a client, or None when the
\* authorization fails; 'if not gc' then logs and returns.
Authorize ==
    /\ main_pc = "auth"
    /\ \E gc \in {"client", "none"} :
           /\ main_gc' = gc
           /\ main_pc' = AfterAuthorization(gc)
           /\ main_log' = IF gc = "client" THEN main_log
                          ELSE main_log \o <<Logged("auth", 0, "error"),
                                             Logged("exit", 0, "critical")>>
    /\ UNCHANGED <<main_script, main_src, main_got, worksheets, bq_tables>>
    /\ UNCHANGED main_frame

\* sbri_df = scrape_sbri_data() and the test that follows
MainScrapeSbri ==
    /\ main_pc = "scrape"
    /\ Source = "sbri"
    /\ \E met \in SbriMet : AfterScrape(ScrapeSbri(main_script, met))

\* dratings_df = scrape_dratings_data() and the test that follows
MainScrapeDratings ==
    /\ main_pc = "scrape"
    /\ Source = "dratings"
    /\ \E met \in DratingsMet(main_script) : AfterScrape(ScrapeDratings(main_script, met))

\* tpt_df = scrape_tpt_data() and the test that follows
MainScrapeTpt ==
    /\ main_pc = "scrape"
    /\ Source = "tpt"
    /\ \E met \in TptMet : AfterScrape(ScrapeTpt(met))

\* ffwin_df = scrape_ffwin_data() and the test that follows
MainScrapeFfwin ==
    /\ main_pc = "scrape"
    /\ Source = "ffwin"
    /\ \E met \in FfwinMet : AfterScrape(scrape_ffwin_data(met))

\* final_analysis_df = perform_baseball_analysis(sbri_df, dratings_df), the
\* display and the test that follows
MainAnalysis ==
    /\ main_pc = "scrape"
    /\ Source = "analysis"
    /\ AfterScrape(perform_baseball_analysis(main_got[1], main_got[2]))

\* write_df_to_sheet(gc, GOOGLE_SHEET_KEY, <sheet>, <table>); without a
\* client the first call of the function fails.
WriteSheet ==
    /\ main_pc = "sheet"
    /\ \E ended \in (IF main_gc = "client" THEN SheetOutcomes ELSE {"failed-before-clear"}) :
           LET log == Append(main_log, Logged("sheet", main_src, ended))
           IN  /\ worksheets' = [worksheets EXCEPT
                                    ![Source] = WorksheetAfter(@, ended, main_got[main_src])]
               /\ IF IsRaised(write_df_to_sheet(ended))
                  THEN main_pc' = "aborted" /\ main_src' = main_src /\ main_log' = log
                  ELSE IF WritesBigQuery(main_script)
                       THEN main_pc' = "bigquery" /\ main_src' = main_src /\ main_log' = log
                       ELSE Advance(log)
    /\ UNCHANGED <<main_script, main_gc, main_got, bq_tables>>
    /\ UNCHANGED main_frame

\* write_df_to_bigquery(<table>, <table id>)
WriteBigQuery ==
    /\ main_pc = "bigquery"
    /\ \E ended \in {"loaded", "failed"} :
           LET log == Append(main_log, Logged("bigquery", main_src, ended))
           IN  /\ bq_tables' = IF ended = "loaded"
                               THEN [bq_tables EXCEPT ![Source] = Append(@, main_got[main_src])]
                               ELSE bq_tables
               /\ IF IsRaised(write_df_to_bigquery(ended))
                  THEN main_pc' = "aborted" /\ main_src' = main_src /\ main_log' = log
                  ELSE Advance(log)
    /\ UNCHANGED <<main_script, main_gc, main_got, worksheets>>
    /\ UNCHANGED main_frame

NextMain ==
    \/ Prompt
    \/ Authorize
    \/ MainScrapeSbri
    \/ MainScrapeDratings
    \/ MainScrapeTpt
    \/ MainScrapeFfwin
    \/ MainAnalysis
    \/ WriteSheet
    \/ WriteBigQuery

----------------------------------------------------------------------------
\* Specifications

SpecConverters == InitConverters /\ [][NextConverters]_vars

SpecAnalysis == InitAnalysis /\ [][NextAnalysis]_vars

SpecSbriScrape == InitSbriScrape /\ [][NextSbriScrape]_vars

SpecDratingsScrape == InitDratingsScrape /\ [][NextDratingsScrape]_vars

SpecTptScrape == InitTptScrape /\ [][NextTptScrape]_vars

SpecTeamNames == InitTeamNames /\ [][NextTeamNames]_vars

SpecMain == InitMain /\ [][NextMain]_vars

Init == InitConverters \/ InitAnalysis \/ InitSbriScrape \/ InitDratingsScrape
            \/ InitTptScrape \/ InitTeamNames \/ InitMain

Next == NextConverters \/ NextAnalysis \/ NextSbriScrape \/ NextDratingsScrape
            \/ NextTptScrape \/ NextTeamNames \/ NextMain

Spec == Init /\ [][Next]_vars

----------------------------------------------------------------------------
\* Claims.  Helpers first.

Done == pc = "done"
Returned == pc = "done" /\ outcome = "ok"
Ready == "Ready for Analysis"
Zero == Num(0, 1)

\* The indices of the rows of final_df that came from odds row i / prediction row j
RowsOfSbri(i) == {k \in 1..Len(final_df) : final_df[k].si = i}
RowsOfDratings(j) == {k \in 1..Len(final_df) : final_df[k].di = j}

\* The status the specification's priority order gives a joined row: both
\* sides of the moneyline and of the win probability are looked at.
StatusBothSides(r) ==
    IF NotNA(r.HomeMLOdds) /\ NotNA(r.AwayMLOdds)
       /\ NotNA(r.HomeWinProb_pred) /\ NotNA(r.AwayWinProb_pred) THEN Ready
    ELSE IF IsNA(r.HomeMLOdds) /\ IsNA(r.AwayMLOdds) THEN "Missing Odds"
    ELSE IF IsNA(r.HomeWinProb_pred) /\ IsNA(r.AwayWinProb_pred) THEN "Missing Prediction"
    ELSE "Unknown"

\* C1: a joined row is 'Ready for Analysis' exactly when the priority order
\* makes it so, which needs a moneyline and a win probability on both the
\* home and the away side (a row with the home moneyline but no away
\* moneyline is not ready); every other row has the status the order gives.
C1_StatusLooksAtBothSides ==
    Returned => \A k \in 1..Len(final_df) :
        /\ final_df[k].Status = Ready => StatusBothSides(final_df[k]) = Ready
        /\ StatusBothSides(final_df[k]) = Ready => final_df[k].Status = Ready

\* C2: the output holds every row of the outer join exactly once.
C2_EveryJoinedRowExactlyOnce ==
    Returned =>
        LET merged == MergedDf(sbri_df, dratings_df)
        IN  \A m \in 1..Len(merged) :
                Cardinality({k \in 1..Len(final_df) :
                                /\ final_df[k].si = merged[m].si
                                /\ final_df[k].di = merged[m].di}) = 1

\* A row of the output whose own larger side value is positive
OwnBetPositive(r) == r.Status = Ready /\ FGt(BestBetValue(r), Zero)
\* Some row of the output with the key of r has a positive value of its own
KeyHasPositiveBet(r) ==
    \E k \in 1..Len(final_df) : Key(final_df[k]) = Key(r) /\ OwnBetPositive(final_df[k])

SbriUnmatched(i) ==
    \A j \in 1..Len(dratings_df) :
        Key(CleanDratingsRow(dratings_df[j], j)) # Key(CleanSbriRow(sbri_df[i], i))
DratingsUnmatched(j) ==
    \A i \in 1..Len(sbri_df) :
        Key(CleanDratingsRow(dratings_df[j], j)) # Key(CleanSbriRow(sbri_df[i], i))

\* C4: an odds row whose key matches no prediction row comes out as exactly
\* one row, prediction cells missing, 'Missing Prediction'; a prediction row
\* whose key matches no odds row comes out as exactly one 'Missing Odds' row.
C4_UnmatchedRowsRetained ==
    Done =>
        /\ \A i \in 1..Len(sbri_df) : SbriUnmatched(i) =>
               /\ Cardinality(RowsOfSbri(i)) = 1
               /\ \A k \in RowsOfSbri(i) :
                      /\ IsNA(final_df[k].HomeWinProb_pred)
                      /\ IsNA(final_df[k].AwayWinProb_pred)
                      /\ final_df[k].Status = "Missing Prediction"
        /\ \A j \in 1..Len(dratings_df) : DratingsUnmatched(j) =>
               /\ Cardinality(RowsOfDratings(j)) = 1
               /\ \A k \in RowsOfDratings(j) : final_df[k].Status = "Missing Odds"

\* C5: a row carries a best-bet team or value only if it is ready for
\* analysis.
C5_BestBetOnlyOnReadyRows ==
    Returned => \A k \in 1..Len(final_df) :
        (NotNA(final_df[k].BestBetTeam) \/ NotNA(final_df[k].BestBetValue))
            => final_df[k].Status = Ready

\* A malformed prediction row: a 'Time' that is no date, or a 'Teams' text
\* that is not 'Team (W-L) Team (W-L)'.
MalformedDratings(j) ==
    \/ dratings_df[j].Time.t = "str"
    \/ ExtractTeams(dratings_df[j].Teams) = <<NaN, NaN>>
\* An odds row with a price that is there and has no decimal odds.
Unconvertible(price) == NotNA(price) /\ ~IsNum(convert_american_to_decimal(price))
MalformedSbri(i) ==
    Unconvertible(sbri_df[i].HomeMLOdds) \/ Unconvertible(sbri_df[i].AwayMLOdds)
MalformedCount ==
    Cardinality({i \in 1..Len(sbri_df) : MalformedSbri(i)})
        + Cardinality({j \in 1..Len(dratings_df) : MalformedDratings(j)})

\* C6: with one malformed row among the rows of two given tables, the call
\* returns, and every other row is in what it returns.
C6_OneBadRowDoesNotAbortBatch ==
    (Done /\ Len(sbri_df) > 0 /\ Len(dratings_df) > 0 /\ MalformedCount = 1) =>
        /\ outcome = "ok"
        /\ \A i \in 1..Len(sbri_df) : ~MalformedSbri(i) => RowsOfSbri(i) # {}
        /\ \A j \in 1..Len(dratings_df) : ~MalformedDratings(j) => RowsOfDratings(j) # {}

\* C7: convert_to_american_odds returns None for a missing or non-numeric d,
\* d*100 - 100 for every d >= 2.0, and for every d < 2.0 the number
\* -100/(d - 1), that is the r with r*(d - 1) = -100.
C7_ToAmericanOnEveryNumber ==
    conv_pc = "d2a" =>
        IF ~IsNum(conv_in) THEN conv_mid = Null
        ELSE IF RatLe(Num(2, 1), conv_in)
             THEN conv_mid = Num(100 * conv_in.n - 100 * conv_in.d, conv_in.d)
             ELSE /\ IsNum(conv_mid)
                  /\ RatMul(conv_mid, RatSub(conv_in, Num(1, 1))) = Num(-100, 1)

\* The number an argument of convert_american_to_decimal stands for, if any
AmericanNumber(v) == IF IsNA(v) \/ v = Str("") THEN NaN ELSE ToFloat(v)

\* C8: convert_american_to_decimal returns NaN for an absent, empty or
\* unparseable a, a/100 + 1 for a > 0, and for every a <= 0 the number
\* 100/|a| + 1, that is the r with (r - 1)*|a| = 100.
C8_ToDecimalOnEveryNumber ==
    conv_pc = "a2d" =>
        LET a == AmericanNumber(conv_in)
        IN  IF ~IsNum(a) THEN conv_mid = NaN
            ELSE IF a.n > 0
                 THEN conv_mid = Num(a.n + 100 * a.d, 100 * a.d)
                 ELSE /\ IsNum(conv_mid)
                      /\ RatMul(RatSub(conv_mid, Num(1, 1)), Num(Abs(a.n), a.d)) = Num(100, 1)

InDecimalRange(d) == IsNum(d) /\ RatLe(Num(2, 1), d) /\ RatLe(d, Num(100, 1))

\* C9: for 2.0 <= d <= 100, convert_to_american_odds(d) is d*100 - 100 and
\* convert_american_to_decimal of it is d again.
C9_RoundTripDecimal ==
    InDecimalRange(conv_in) =>
        /\ conv_pc \in {"d2a", "d2a2d"} =>
               conv_mid = Num(100 * conv_in.n - 100 * conv_in.d, conv_in.d)
        /\ conv_pc = "d2a2d" => conv_out = conv_in

C9_Witness ==
    conv_pc = "d2a2d" /\ conv_in = Num(205, 100) /\ conv_mid = Num(105, 1) /\ conv_out = conv_in

\* C10 as stated: for a >= 100 or a <= -100, both boundaries included,
\* convert_to_american_odds(convert_american_to_decimal(a)) is a.
C10_RoundTripAmericanWithBoundaries ==
    (conv_pc = "a2d2a" /\ IsNum(conv_in)
        /\ (RatLe(Num(100, 1), conv_in) \/ RatLe(conv_in, Num(-100, 1))))
    => conv_out = conv_in

\* C10 as amended: the round trip is the identity for a >= 100 and for
\* a < -100; a = -100 comes back as +100.
C10_RoundTripAmerican ==
    (conv_pc = "a2d2a" /\ IsNum(conv_in)) =>
        /\ (RatLe(Num(100, 1), conv_in) \/ RatLt(conv_in, Num(-100, 1))) => conv_out = conv_in
        /\ conv_in = Num(-100, 1) => conv_mid = Num(2, 1) /\ conv_out = Num(100, 1)

C10_Witness ==
    conv_pc = "a2d2a" /\ conv_in = Num(-150, 1) /\ conv_out = Num(-150, 1)

\* C11: convert_american_to_decimal(0) ends with the function's error value
\* (NaN, as for any argument it cannot convert): it neither returns a number
\* nor ends by raising.
C11_ZeroIsFlagged ==
    (conv_pc = "a2d" /\ AmericanNumber(conv_in) = Zero) => conv_mid = NaN

----------------------------------------------------------------------------
\* Claims on scrape_sbri_data

SbriDone == sbri_pc = "done"
\* The call got a response that decoded (it did not return at lines 99-104)
SbriDecoded == SbriDone /\ sbri_ret # Null
BadStart(events) == \E i \in 1..Len(events) : IsRaised(ParseTsStart(events[i].tsstart))

\* Absent, or American odds of magnitude at least 100
AbsentOrAmerican(v) ==
    \/ IsNA(v)
    \/ IsNum(v) /\ (RatLe(Num(100, 1), v) \/ RatLe(v, Num(-100, 1)))

\* C12: whatever the numeric prices of the feed (1.0 and prices below 1.0
\* included), the call returns its records, and every price column of every
\* record is absent or an American-odds number of magnitude >= 100.
C12_PricesAbsentOrAmerican ==
    (SbriDecoded /\ ~BadStart(feed)) =>
        /\ IsDataFrame(sbri_ret)
        /\ \A k \in 1..Len(sbri_ret.rows) : \A c \in OddsCols :
               AbsentOrAmerican(sbri_ret.rows[k][c])

RecognizedMarket(s, name) == name \in {MoneyLineMarket(s), SpreadMarket(s), TotalMarket(s)}
NoRecognizedMarket(s, event) ==
    \A m \in 1..Len(event.markets) : ~RecognizedMarket(s, event.markets[m].name)

\* C13: the call returns one record per event of the feed, and the record of
\* an event without a recognized market has its sport, time and teams and no
\* price.
C13_OneRecordPerEvent ==
    (SbriDecoded /\ ~BadStart(feed)) =>
        /\ IsDataFrame(sbri_ret)
        /\ Len(sbri_ret.rows) = Len(feed)
        /\ \A i \in 1..Len(feed) :
               \E k \in 1..Len(sbri_ret.rows) :
                   LET r == sbri_ret.rows[k]
                   IN  /\ r.ei = i
                       /\ NoRecognizedMarket(script, feed[i]) =>
                              /\ r.Sport = feed[i].sportname
                              /\ r.GameStart.t = "naive"
                              /\ r.AwayTeam = feed[i].shortnameaway
                              /\ r.HomeTeam = feed[i].shortnamehome
                              /\ \A c \in OddsCols : IsNA(r[c])

\* A selection that has a role in some recognized market of the event
RoleName(event, sel) ==
    sel.name \in {event.shortnameaway, event.shortnamehome, Str("Over"), Str("Under")}

\* The feed without its unrecognized markets and without the selections
\* that are neither team, 'Over' nor 'Under'
StripEvent(s, event) ==
    LET kept == SelectSeq(event.markets, LAMBDA m : RecognizedMarket(s, m.name))
    IN  [event EXCEPT !.markets =
            [m \in 1..Len(kept) |->
                [kept[m] EXCEPT !.selections =
                    SelectSeq(@, LAMBDA sel : RoleName(event, sel))]]]
StripFeed(s, events) == [i \in 1..Len(events) |-> StripEvent(s, events[i])]

\* C14: unrecognized markets, and selections named neither as a team of the
\* event nor 'Over' nor 'Under', change no field of any record and raise
\* nothing: the call ends as it does on the feed without them.
C14_UnrecognizedIgnored ==
    SbriDecoded => sbri_ret = ScrapeSbriEvents(script, StripFeed(script, feed))

\* An unrecognized market holding a team selection priced 1.0 and a money
\* line holding a selection of no role priced 1.0: one record, no price.
C14_Witness ==
    /\ SbriDecoded /\ IsDataFrame(sbri_ret) /\ Len(feed) = 1
    /\ \E m \in 1..Len(feed[1].markets) :
           /\ ~RecognizedMarket(script, feed[1].markets[m].name)
           /\ \E x \in 1..Len(feed[1].markets[m].selections) :
                  /\ feed[1].markets[m].selections[x].name = feed[1].shortnameaway
                  /\ feed[1].markets[m].selections[x].price = Num(1, 1)
    /\ \E m \in 1..Len(feed[1].markets) :
           /\ feed[1].markets[m].name = MoneyLineMarket(script)
           /\ \E x \in 1..Len(feed[1].markets[m].selections) :
                  /\ ~RoleName(feed[1], feed[1].markets[m].selections[x])
                  /\ feed[1].markets[m].selections[x].price = Num(1, 1)
    /\ Len(sbri_ret.rows) = 1
    /\ \A c \in OddsCols : IsNA(sbri_ret.rows[1][c])

----------------------------------------------------------------------------
\* Claims on scrape_dratings_data

DratingsDone == drate_pc = "done"
Met(o) == \E k \in 1..Len(fetched) : fetched[k].o = o

\* The page the k-th request asked for
PageOf(k) == FirstPage(script) + k - 1

\* The tables that the pages whose document was fetched and parsed hold for
\* the script, in page order
RECURSIVE KeptOfSucceeded(_)
KeptOfSucceeded(k) ==
    IF k > Len(fetched) THEN <<>>
    ELSE (IF fetched[k].o = "tables" /\ Len(KeptTable(script, fetched[k].tables)) > 0
          THEN << Stamp(KeptTable(script, fetched[k].tables)[1].rows, PageOf(k)) >>
          ELSE <<>>) \o KeptOfSucceeded(k + 1)

\* Every page of the loop was asked for, and the call returned what the
\* pages that succeeded give.
AllPagesAttemptedAndCollected ==
    /\ Len(fetched) = PageCount(script)
    /\ drate_ret = FinishDratings(script, KeptOfSucceeded(1))

\* C15: when the request of some page fails, only that page is skipped:
\* every later page is still asked for, and the call returns the
\* concatenated, de-duplicated rows of the pages that succeeded.
C15_FetchFailureSkipsOnlyThatPage ==
    (DratingsDone /\ Met("fetch-failed")) => AllPagesAttemptedAndCollected

\* C16: when the document of some page cannot be parsed into tables, only
\* that page is skipped: the loop goes on with the remaining pages and the
\* tables kept from the other pages are returned.
C16_ParseFailureSkipsOnlyThatPage ==
    (DratingsDone /\ Met("no-tables")) =>
        /\ ~IsRaised(drate_ret)
        /\ AllPagesAttemptedAndCollected

\* What the callers test of the value: main.py line 278 and its likes,
\* "dratings_df is not None and not dratings_df.empty"
CallerSees(v) == [none |-> v = Null, empty |-> IsDataFrame(v) /\ IsEmpty(v)]

\* The call returned with no table kept from any page
NoTableKept == DratingsDone /\ ~IsRaised(drate_ret) /\ Len(all_dfs) = 0
\* What the script returns after keeping one table that has no rows
EmptyButSuccessful(s) == FinishDratings(s, << <<>> >>)

\* C17: when no page yields a qualifying table, what the call returns can
\* be told from what it returns for a collected table without rows.
C17_NoDataIsDistinguishable ==
    NoTableKept => CallerSees(drate_ret) # CallerSees(EmptyButSuccessful(script))

\* C18: in every script, a pause lies between any two consecutive requests,
\* whether the earlier one succeeded or failed.
C18_PauseBetweenFetches ==
    \A k \in 1..(Len(fetch_log) - 1) : ~(fetch_log[k] = "get" /\ fetch_log[k + 1] = "get")

\* Row a was read before row b: an earlier page, or earlier in the same page
ReadBefore(a, b) == a.pg < b.pg \/ (a.pg = b.pg /\ a.ix < b.ix)
\* The text of the 'Teams' cell of a returned row as the page had it
TeamsAsRead(r) ==
    LET all == Concat(all_dfs, 1)
    IN  (CHOOSE q \in {all[i] : i \in 1..Len(all)} : q.pg = r.pg /\ q.ix = r.ix).Teams

\* C19: the returned table has no two rows with the same 'Teams'; the row
\* kept for a key is the first read with it; and the rows are in the order
\* they were first read.
C19_FirstSeenOnceInOrder ==
    (DratingsDone /\ IsDataFrame(drate_ret)) =>
        LET rows == drate_ret.rows
            all == Concat(all_dfs, 1)
        IN  /\ \A i, j \in 1..Len(rows) : i # j => rows[i].Teams # rows[j].Teams
            /\ \A i \in 1..Len(rows) : \A q \in 1..Len(all) :
                   all[q].Teams = TeamsAsRead(rows[i]) => ~ReadBefore(all[q], rows[i])
            /\ \A i, j \in 1..Len(rows) : i < j => ReadBefore(rows[i], rows[j])

----------------------------------------------------------------------------
\* Claims on scrape_tpt_data

TptDone == tpt_pc = "done"
HasHeader(doc) == doc.pre /\ FirstOf(doc.lines, "header", 1) # 0
NonBlank(lines) == SelectSeq(lines, LAMBDA l : l # "blank")
\* None or an empty table
IsNoData(v) == v = Null \/ (IsDataFrame(v) /\ IsEmpty(v))

\* C20: scrape_tpt_data never raises; without a <pre> block, without the
\* header phrase, or with no row in the data region it ends with 'no data'
\* (None or an empty table); without a separator every line that follows
\* the header and the line under it is parsed as a row.
C20_TptNeverRaises ==
    TptDone =>
        /\ ~IsRaised(tpt_ret)
        /\ ~tpt_doc.pre => IsNoData(tpt_ret)
        /\ ~HasHeader(tpt_doc) => IsNoData(tpt_ret)
        /\ (HasHeader(tpt_doc)
               /\ Len(NonBlank(BeforeSeparator(AfterHeader(tpt_doc.lines)))) = 0)
              => IsNoData(tpt_ret)
        /\ (HasHeader(tpt_doc)
               /\ FirstOf(AfterHeader(tpt_doc.lines), "sep", 1) = 0
               /\ FirstOf(AfterHeader(tpt_doc.lines), "data", 1) # 0)
              => /\ IsDataFrame(tpt_ret)
                 /\ Len(tpt_ret.rows) = Len(NonBlank(AfterHeader(tpt_doc.lines)))

\* A block without separator: the header, the line under it, a table line
\* and a line of prose; both lines after the two skipped ones are rows.
C20_Witness ==
    /\ TptDone
    /\ tpt_doc = [pre |-> TRUE, lines |-> <<"header", "rule", "data", "text">>]
    /\ IsDataFrame(tpt_ret)
    /\ Len(tpt_ret.rows) = 2
    /\ tpt_ret.rows[1].Home = Str("New York Giants")
    /\ tpt_ret.rows[1].Visitor = Str("Dallas Cowboys")
    /\ tpt_ret.rows[2].Home = Str("Last updated")

----------------------------------------------------------------------------
\* Claims on the team-name replacement

IsKey(v) == v.t = "str" /\ v.s \in ShortNames

\* C21: the replacement is an exact, case-sensitive lookup of the whole
\* cell: a cell that is a key becomes the full name of that key ('Jets'
\* becomes 'New York Jets'); any other cell ('Unknown City XYZ', a key in
\* other letter case, a missing cell) stays as it is, and nothing is raised.
C21_ExactWholeStringLookup ==
    name_pc = "once" =>
        /\ ~IsRaised(name_out)
        /\ IsKey(name_in) =>
               \E k \in 1..Len(TEAM_NAME_MAP) :
                   TEAM_NAME_MAP[k][1] = name_in.s /\ name_out = Str(TEAM_NAME_MAP[k][2])
        /\ ~IsKey(name_in) => name_out = name_in
        /\ name_in = Str("Jets") => name_out = Str("New York Jets")
        /\ name_in = Str("Unknown City XYZ") => name_out = Str("Unknown City XYZ")
        /\ name_in = Str("jets") => name_out = Str("jets")

\* The key 'Jets' replaced by its full name.
C21_Witness ==
    /\ name_pc = "once"
    /\ name_in = Str("Jets")
    /\ name_out = Str("New York Jets")

\* The keys of lines 81-112 are cities (or city and nickname), those of
\* lines 113-143 are nicknames.
LastCityKey == 32
CityKeys == {TEAM_NAME_MAP[k][1] : k \in {j \in 1..Len(TEAM_NAME_MAP) : j <= LastCityKey}}
NicknameKeys == {TEAM_NAME_MAP[k][1] : k \in {j \in 1..Len(TEAM_NAME_MAP) : j > LastCityKey}}

\* C30: the replacement is idempotent: replacing a replaced cell changes
\* nothing, because no full name of the table is a key; and a nickname key
\* gives the same full name as the city key of its team.
C30_ResolutionIsIdempotent ==
    /\ name_pc = "twice" => name_twice = name_out
    /\ (name_pc = "once" /\ name_in.t = "str" /\ name_in.s \in FullNames)
          => (~IsKey(name_in) /\ name_out = name_in)
    /\ (name_pc = "once" /\ name_in.t = "str" /\ name_in.s \in NicknameKeys)
          => \E c \in CityKeys : ReplaceTeamName(Str(c)) = name_out

\* The nickname key 'Giants', replaced twice: the same full name as the
\* city key 'N.Y. Giants' gives.
C30_Witness ==
    /\ name_pc = "twice"
    /\ name_in = Str("Giants")
    /\ name_out = Str("New York Giants")
    /\ name_twice = Str("New York Giants")
    /\ ReplaceTeamName(Str("N.Y. Giants")) = name_out

----------------------------------------------------------------------------
\* Claims on the values of perform_baseball_analysis

One == Num(1, 1)
\* probability * decimal odds - 1, NaN when either is not a number
ValueOf(prob, odds) == IF IsNum(prob) /\ IsNum(odds) THEN RatSub(RatMul(prob, odds), One) ELSE NaN

\* C25: on every row that is ready for analysis, HomeValue is
\* HomeWinProb_pred * HomeDecimalOdds - 1 and AwayValue likewise;
\* BestBetValue is the larger of the two values, and BestBetTeam is the home
\* team exactly when HomeValue > AwayValue, the away team otherwise: on a
\* tie the away team is named.
C25_ValuesAndBestBet ==
    Returned => \A k \in 1..Len(analysis_ready_df) :
        LET r == analysis_ready_df[k]
            both == IsNum(r.HomeValue) /\ IsNum(r.AwayValue)
        IN  /\ r.Status = Ready
            /\ r.HomeValue = ValueOf(r.HomeWinProb_pred, r.HomeDecimalOdds)
            /\ r.AwayValue = ValueOf(r.AwayWinProb_pred, r.AwayDecimalOdds)
            /\ both => /\ r.BestBetValue \in {r.HomeValue, r.AwayValue}
                       /\ RatLe(r.HomeValue, r.BestBetValue)
                       /\ RatLe(r.AwayValue, r.BestBetValue)
            /\ (both /\ RatLt(r.AwayValue, r.HomeValue)) => r.BestBetTeam = r.HomeTeam
            /\ ~(both /\ RatLt(r.AwayValue, r.HomeValue)) => r.BestBetTeam = r.AwayTeam

\* A ready row with moneylines (+150, +150) and Win '50% 50%': both values
\* are 0.25, and the away team is named.
C25_Witness ==
    /\ Returned
    /\ \E k \in 1..Len(analysis_ready_df) :
           /\ analysis_ready_df[k].HomeValue = Num(1, 4)
           /\ analysis_ready_df[k].AwayValue = Num(1, 4)
           /\ analysis_ready_df[k].BestBetValue = Num(1, 4)
           /\ analysis_ready_df[k].BestBetTeam = analysis_ready_df[k].AwayTeam
           /\ analysis_ready_df[k].AwayTeam # analysis_ready_df[k].HomeTeam

\* C28: no row of the output has the status 'Unknown': whether 'Home
\* MLOdds' and 'HomeWinProb_pred' are present or missing, one of the three
\* conditions matches, and a row missing both is labelled 'Missing Odds'.
C28_UnknownIsUnreachable ==
    Returned => \A k \in 1..Len(final_df) :
        LET r == final_df[k]
        IN  /\ r.Status # "Unknown"
            /\ r.Status \in {Ready, "Missing Odds", "Missing Prediction"}
            /\ (IsNA(r.HomeMLOdds) /\ IsNA(r.HomeWinProb_pred)) => r.Status = "Missing Odds"
            /\ (NotNA(r.HomeMLOdds) /\ IsNA(r.HomeWinProb_pred))
                  => r.Status = "Missing Prediction"
            /\ (IsNA(r.HomeMLOdds) /\ NotNA(r.HomeWinProb_pred)) => r.Status = "Missing Odds"
            /\ (NotNA(r.HomeMLOdds) /\ NotNA(r.HomeWinProb_pred)) => r.Status = Ready

\* An odds row without moneylines that no prediction row matches: both
\* cells are missing, the row is labelled 'Missing Odds'.
C28_Witness ==
    /\ Returned
    /\ \E k \in 1..Len(final_df) :
           /\ IsNA(final_df[k].HomeMLOdds)
           /\ IsNA(final_df[k].HomeWinProb_pred)
           /\ final_df[k].Status = "Missing Odds"

----------------------------------------------------------------------------
\* Claims on the tables scrape_dratings_data keeps and on their times

\* The required-column predicate of the script: the marker column ('Pitchers',
\* 'Final Runs'); for Football2025, ten columns or more.
Qualifies(s, t) == IF s = "Football2025" THEN t.wide ELSE t.marker

\* The first table of a page, in document order, that qualifies: a sequence
\* of at most one table
FirstQualifying(s, tables) ==
    LET q == SelectSeq(tables, LAMBDA t : Qualifies(s, t))
    IN  IF Len(q) > 0 THEN <<q[1]>> ELSE <<>>

\* One table at most per parsed page, the first that qualifies, in page order
RECURSIVE FirstQualifyingOfPages(_)
FirstQualifyingOfPages(k) ==
    IF k > Len(fetched) THEN <<>>
    ELSE (IF fetched[k].o = "tables" /\ Len(FirstQualifying(script, fetched[k].tables)) > 0
          THEN << Stamp(FirstQualifying(script, fetched[k].tables)[1].rows, PageOf(k)) >>
          ELSE <<>>) \o FirstQualifyingOfPages(k + 1)

\* C26: of every parsed page the scraper keeps one table at most, the first
\* in document order whose columns satisfy the required-column predicate:
\* a page whose first table does not qualify and whose later table does
\* contributes that later table.
C26_FirstQualifyingTableKept ==
    drate_pc # "idle" => all_dfs = FirstQualifyingOfPages(1)

\* C27: every row of the table a collector returns has a parsed timestamp
\* in 'Time': a row whose 'Time' text does not parse is dropped and never
\* reaches the output.
C27_UnparsedTimesDropped ==
    (DratingsDone /\ IsDataFrame(drate_ret)) =>
        \A i \in 1..Len(drate_ret.rows) :
            \/ drate_ret.rows[i].Time.t = "ts"
            \/ drate_ret.rows[i].Time.t = "str" /\ NotNA(ParseTimeUtc(drate_ret.rows[i].Time))

----------------------------------------------------------------------------
\* Claims on main()

MainEnded == main_pc \in {"finished", "unauthorized", "rejected", "aborted"}
Did(e, i) == \E k \in 1..Len(main_log) : main_log[k].e = e /\ main_log[k].src = i
DidAs(e, i, how) == \E k \in 1..Len(main_log) : main_log[k] = Logged(e, i, how)
\* The i-th source of the run returned a table with rows
GotRows(i) ==
    /\ i <= Len(main_got)
    /\ ~IsRaised(main_got[i]) /\ main_got[i] # Null
    /\ main_got[i].t = "df" /\ Len(main_got[i].rows) > 0 /\ Len(main_got[i].columns) > 0

\* C22: in main of mlb-sbri-drate/main.py, for each source with data, a
\* failure of the worksheet write never prevents the BigQuery write from
\* being attempted, and a failure of either write for one source never
\* prevents the writes for the next source from being attempted.
C22_WriteFailuresDoNotStopWrites ==
    (main_script = "main" /\ MainEnded) =>
        \A i \in 1..Len(Sources(main_script)) :
            /\ GotRows(i) => (Did("sheet", i) /\ Did("bigquery", i))
            /\ Did("sheet", i) => Did("bigquery", i)

\* Both writes of the odds table fail, and both writes of the prediction
\* table are attempted all the same.
C22_Witness ==
    /\ main_script = "main"
    /\ main_pc = "finished"
    /\ DidAs("sheet", 1, "failed-after-clear")
    /\ DidAs("bigquery", 1, "failed")
    /\ GotRows(2)
    /\ Did("sheet", 2)
    /\ DidAs("bigquery", 2, "loaded")

\* C23: when get_google_sheet_client returns no client, main reports it and
\* ends the run: no source is fetched, no worksheet and no BigQuery table is
\* written.
C23_NoClientEndsRun ==
    main_gc = "none" =>
        /\ main_pc = "unauthorized"
        /\ DidAs("exit", 0, "critical")
        /\ main_got = <<>>
        /\ \A k \in 1..Len(main_log) : main_log[k].e \notin {"scrape", "sheet", "bigquery"}
        /\ \A n \in SourceNames : worksheets[n] = Prior /\ bq_tables[n] = <<>>

\* The run of Football2025.py ended at the authorization.
C23_Witness ==
    /\ main_script = "Football2025"
    /\ main_gc = "none"
    /\ main_pc = "unauthorized"
    /\ main_log = <<Logged("auth", 0, "error"), Logged("exit", 0, "critical")>>

\* The scraper of the named source ended by raising
RaisedIn(src) ==
    \E i \in 1..Len(main_got) : IsRaised(main_got[i]) /\ Sources(main_script)[i] = src

\* C24: once authorized, no failure of a source (a request that fails, a
\* page without tables, a table without an expected column, no rows) ends
\* the run: main attempts every source and reaches 'Script finished'.  The
\* exceptions that leave scrape_sbri_data and scrape_dratings_data are set
\* aside here.
C24_SourceFailureDoesNotAbort ==
    (main_gc = "client" /\ MainEnded /\ ~RaisedIn("sbri") /\ ~RaisedIn("dratings")) =>
        /\ main_pc = "finished"
        /\ Len(main_got) = Len(Sources(main_script))
        /\ DidAs("finished", 0, "info")

\* C29: in every main the worksheet write and the BigQuery append of a
\* source are invoked only when the source gave a table with rows; when a
\* scrape or the analysis gives None or an empty table, the worksheet of the
\* source keeps what it held.
C29_WritesOnlyWithData ==
    main_pc # "idle" =>
        \A i \in 1..Len(Sources(main_script)) :
            LET src == Sources(main_script)[i]
            IN  /\ (Did("sheet", i) \/ Did("bigquery", i)) => GotRows(i)
                /\ (i <= Len(main_got) /\ ~GotRows(i)) =>
                       (worksheets[src] = Prior /\ bq_tables[src] = <<>>)

\* mlb-sbri-drate/main.py: the odds table has rows and is written; no
\* prediction table was kept, scrape_dratings_data returned an empty table
\* and its worksheet holds what it held.
C29_Witness ==
    /\ main_script = "main"
    /\ main_pc = "finished"
    /\ DidAs("sheet", 1, "written")
    /\ worksheets["sbri"] = main_got[1]
    /\ main_got[2] = EmptyDataFrame
    /\ ~Did("sheet", 2) /\ ~Did("bigquery", 2)
    /\ worksheets["dratings"] = Prior
====
